---------------------------- MODULE Spec2Model ----------------------------
(***************************************************************************)
(* datacat: the MCP tools over the Datadog log search API.                 *)
(*                                                                         *)
(* Modelled here: the DatadogClient (src/src/datadog-client.ts),           *)
(* normalizeQuery, getDatadogClient and the CallTool handler of every      *)
(* tool (src/src/mcp-server.ts), and the formatters.  formatters.ts is     *)
(* carried twice in src/src/datadog-client.ts: lines 254-313 (here         *)
(* formatLogsAsTable, formatLogForCsv1) and lines 314-464 (here            *)
(* formatLogsAsTable2, formatLogsAsEnhancedTable, formatLogForCsv).        *)
(* mcp-server.ts imports './formatters.js': the variable `formatters`      *)
(* tells which of the two the server runs with, and both are checked.      *)
(*                                                                         *)
(* Representation.                                                         *)
(*  - A string the code inspects character by character (a query, a table  *)
(*    cell) is a sequence of one-character strings.  A string the code     *)
(*    only compares or passes on (a time reference) is a TLA+ string.      *)
(*  - An instant is a whole number of seconds.  Every duration of the      *)
(*    source is a whole multiple of 1000 ms, and 30 days in milliseconds   *)
(*    does not fit the 32-bit integers of the model checker, so the        *)
(*    source's "x * 1000" is the model's "x".                              *)
(*  - Date.prototype.toISOString is the injective formatting of an instant *)
(*    into a string: [iso |-> t].  A timestamp string that came from the   *)
(*    caller is [text |-> s].                                              *)
(***************************************************************************)
EXTENDS Integers, Sequences, FiniteSets, TLC

VARIABLES
    clock,      \* the wall clock, what new Date() / Date.now() read
    fn,         \* pure-function harness: the function applied ("" before the call)
    arg,        \* pure-function harness: its argument
    ret,        \* pure-function harness: the value it returned
    env,            \* process.env: DD_API_KEY and DD_APP_KEY
    datadogClient,  \* the global datadogClient of mcp-server.ts
    constructed,    \* how many times new DatadogClient(config) has run
    formatters,     \* which formatters.ts './formatters.js' resolves to: 1 or 2
    calls           \* the tool invocations: where each handler is, what it holds

vars == <<clock, fn, arg, ret, env, datadogClient, constructed, formatters, calls>>

\* the state of the server, which the pure-function harness leaves alone
serverVars == <<env, datadogClient, constructed, formatters, calls>>

\* the state of the pure-function harness, which the server leaves alone
harnessVars == <<fn, arg, ret>>

\* JavaScript's null / undefined, and the marker of "not called yet".
\* (Values of different shapes are records, so that any two can be compared.)
Null == [type |-> "null"]
Undefined == [type |-> "undefined"]
NotCalled == [type |-> "not called"]

(***************************************************************************)
(* Bounds of the model.                                                    *)
(***************************************************************************)
\* the clock runs over ClockStart .. ClockStart + MaxClock
MaxClock == 1

\* the first clock value (seconds since the epoch)
ClockStart == 1700000000

\* the queries given to normalizeQuery have at most MaxWords words
MaxWords == 2

\* the formatters are given at most MaxLogs logs
MaxLogs == 2

\* the tool invocations of one run of the server
MaxCalls == 2

ClockValues == ClockStart .. (ClockStart + MaxClock)

(***************************************************************************)
(* Time: DatadogClient.formatTimestamp and DatadogClient.parseTimeRange.   *)
(***************************************************************************)
\* Date.prototype.toISOString
toISOString(t) == [iso |-> t]

\* a timestamp string supplied by the caller, passed on verbatim
Text(s) == [text |-> s]

\* The keys every object literal inherits from Object.prototype: ranges[k]
\* is a (truthy) function or object for each of them, though ranges has no
\* own property k.
ObjectPrototypeKeys ==
    { "constructor", "toString", "toLocaleString", "valueOf", "hasOwnProperty",
      "isPrototypeOf", "propertyIsEnumerable", "__proto__",
      "__defineGetter__", "__defineSetter__", "__lookupGetter__",
      "__lookupSetter__" }

\* what typeof / instanceof tell formatTimestamp about its argument
Date(t) == [type |-> "Date", time |-> t]
Inherited(k) == [type |-> "inherited", key |-> k]
StringValue(s) == [type |-> "string", value |-> s]

\* the `ranges` table of parseTimeRange, built from one clock reading `now`
ranges_wrong30d(now) ==
    [ k \in {"1h","2h","4h","6h","12h","24h","1d","2d","3d","7d","14d","30d"} |->
        CASE k = "1h"  -> Date(now - 60 * 60)
          [] k = "2h"  -> Date(now - 2 * 60 * 60)
          [] k = "4h"  -> Date(now - 4 * 60 * 60)
          [] k = "6h"  -> Date(now - 6 * 60 * 60)
          [] k = "12h" -> Date(now - 12 * 60 * 60)
          [] k = "24h" -> Date(now - 24 * 60 * 60)
          [] k = "1d"  -> Date(now - 24 * 60 * 60)
          [] k = "2d"  -> Date(now - 2 * 24 * 60 * 60)
          [] k = "3d"  -> Date(now - 3 * 24 * 60 * 60)
          [] k = "7d"  -> Date(now - 7 * 24 * 60 * 60)
          [] k = "14d" -> Date(now - 14 * 24 * 60 * 60)
          [] k = "30d" -> Date(now - 30 * 60 * 60) ]

ranges(now) ==
    [ k \in {"1h","2h","4h","6h","12h","24h","1d","2d","3d","7d","14d","30d"} |->
        CASE k = "1h"  -> Date(now - 60 * 60)
          [] k = "2h"  -> Date(now - 2 * 60 * 60)
          [] k = "4h"  -> Date(now - 4 * 60 * 60)
          [] k = "6h"  -> Date(now - 6 * 60 * 60)
          [] k = "12h" -> Date(now - 12 * 60 * 60)
          [] k = "24h" -> Date(now - 24 * 60 * 60)
          [] k = "1d"  -> Date(now - 24 * 60 * 60)
          [] k = "2d"  -> Date(now - 2 * 24 * 60 * 60)
          [] k = "3d"  -> Date(now - 3 * 24 * 60 * 60)
          [] k = "7d"  -> Date(now - 7 * 24 * 60 * 60)
          [] k = "14d" -> Date(now - 14 * 24 * 60 * 60)
          [] k = "30d" -> Date(now - 30 * 24 * 60 * 60) ]

\* ranges[timeRange]: an own property, else what the prototype chain gives,
\* else undefined
rangesLookup(now, timeRange) ==
    IF timeRange \in DOMAIN ranges(now) THEN ranges(now)[timeRange]
    ELSE IF timeRange \in ObjectPrototypeKeys THEN Inherited(timeRange)
    ELSE Undefined

\* formatTimestamp(timestamp), with `now` what its last line's new Date() reads.
\* A caller-supplied string is returned as it is; a Date is formatted; a value
\* that is neither string, Date nor number falls to the last line.
formatTimestamp(timestamp, now) ==
    IF timestamp.type = "string" THEN Text(timestamp.value)
    ELSE IF timestamp.type = "Date" THEN toISOString(timestamp.time)
    ELSE toISOString(now)

\* parseTimeRange(timeRange) with the clock reading `now`.  The two clock
\* readings of one synchronous call (line 164 and, for a value that is no
\* Date, line 160) are taken to be the same second.
parseTimeRange_toIsFrom(timeRange, now) ==
    IF rangesLookup(now, timeRange) # Undefined
    THEN [ from |-> formatTimestamp(rangesLookup(now, timeRange), now),
           to   |-> formatTimestamp(rangesLookup(now, timeRange), now) ]
    ELSE Null

parseTimeRange(timeRange, now) ==
    IF rangesLookup(now, timeRange) # Undefined
    THEN [ from |-> formatTimestamp(rangesLookup(now, timeRange), now),
           to   |-> formatTimestamp(Date(now), now) ]
    ELSE Null

(***************************************************************************)
(* Strings as sequences of characters, with the String.prototype methods   *)
(* and the regular expressions normalizeQuery uses.                        *)
(***************************************************************************)
\* the string literals of normalizeQuery (mcp-server.ts lines 81-152)
L ==
    [ colon |-> <<":">>,
      AND |-> <<"A","N","D">>,
      OR |-> <<"O","R">>,
      service |-> <<"s","e","r","v","i","c","e">>,
      api |-> <<"a","p","i">>,
      server |-> <<"s","e","r","v","e","r">>,
      logs |-> <<"l","o","g","s">>,
      log |-> <<"l","o","g">>,
      from |-> <<"f","r","o","m">>,
      for |-> <<"f","o","r">>,
      in |-> <<"i","n">>,
      the |-> <<"t","h","e">>,
      check |-> <<"c","h","e","c","k">>,
      show |-> <<"s","h","o","w">>,
      find |-> <<"f","i","n","d">>,
      and |-> <<"a","n","d">>,
      or |-> <<"o","r">>,
      with |-> <<"w","i","t","h">>,
      get |-> <<"g","e","t">>,
      error |-> <<"e","r","r","o","r">>,
      fail |-> <<"f","a","i","l">>,
      warn |-> <<"w","a","r","n">>,
      auth |-> <<"a","u","t","h">>,
      login |-> <<"l","o","g","i","n">>,
      token |-> <<"t","o","k","e","n">>,
      database |-> <<"d","a","t","a","b","a","s","e">>,
      db |-> <<"d","b">>,
      sql |-> <<"s","q","l">>,
      payment |-> <<"p","a","y","m","e","n","t">>,
      transaction |-> <<"t","r","a","n","s","a","c","t","i","o","n">>,
      space |-> <<" ">>,
      star |-> <<"*">>,
      lparen |-> <<"(">>,
      rparen |-> <<")">>,
      serviceStar |-> <<"s","e","r","v","i","c","e",":","*">>,
      sepOR |-> <<" ","O","R"," ">>,
      sepAND |-> <<" ","A","N","D"," ">>,
      andStatusError |-> <<")"," ","A","N","D"," ","s","t","a","t","u","s",":","e","r","r","o","r">>,
      parenOrParen |-> <<")"," ","O","R"," ","(">>,
      statusError |-> <<"s","t","a","t","u","s",":","e","r","r","o","r"," ","O","R"," ","*","e","r","r","o","r","*">>,
      statusWarn |-> <<"s","t","a","t","u","s",":","w","a","r","n"," ","O","R"," ","*","w","a","r","n","*">>,
      authClause |-> <<"*","a","u","t","h","*"," ","O","R"," ","*","l","o","g","i","n","*"," ","O","R"," ","*","t","o","k","e","n","*">>,
      dbClause |-> <<"*","d","a","t","a","b","a","s","e","*"," ","O","R"," ","*","d","b","*"," ","O","R"," ","*","s","q","l","*">>,
      paymentClause |-> <<"*","p","a","y","m","e","n","t","*"," ","O","R"," ","*","t","r","a","n","s","a","c","t","i","o","n","*">> ]

UpperCase == <<"A","B","C","D","E","F","G","H","I","J","K","L","M","N","O","P","Q","R","S","T","U","V","W","X","Y","Z">>
LowerCase == <<"a","b","c","d","e","f","g","h","i","j","k","l","m","n","o","p","q","r","s","t","u","v","w","x","y","z">>
Digits == <<"0","1","2","3","4","5","6","7","8","9">>

Range(f) == { f[i] : i \in DOMAIN f }

\* \s of a regular expression
IsSpace(c) == c \in {" ", "\t", "\n", "\r"}

\* \w of a regular expression
WordChars == Range(UpperCase) \cup Range(LowerCase) \cup Range(Digits) \cup {"_"}

IsWordChar(c) == c \in WordChars

\* String.prototype.toLowerCase
UpperCaseChars == Range(UpperCase)

toLowerCaseChar(c) ==
    IF c \in UpperCaseChars
    THEN LowerCase[CHOOSE i \in DOMAIN UpperCase : UpperCase[i] = c]
    ELSE c

toLowerCase(s) == [ i \in 1..Len(s) |-> toLowerCaseChar(s[i]) ]

\* String.prototype.includes
includes(s, sub) ==
    \E i \in 1..(Len(s) - Len(sub) + 1) : SubSeq(s, i, i + Len(sub) - 1) = sub

\* \b at the position before s[p] (p = Len(s) + 1: at the end)
WordBoundary(s, p) ==
    LET before == p > 1 /\ IsWordChar(s[p - 1])
        after  == p <= Len(s) /\ IsWordChar(s[p])
    IN  before # after

\* /\b(alt)\b/ matches s at position i
MatchesWordAt(s, i, alt) ==
    /\ i + Len(alt) - 1 <= Len(s)
    /\ SubSeq(s, i, i + Len(alt) - 1) = alt
    /\ WordBoundary(s, i)
    /\ WordBoundary(s, i + Len(alt))

\* s.replace(/\b(alts[1]|alts[2]|...)\b/g, ''), scanning from position i:
\* the leftmost match is removed, the first alternative that matches wins,
\* and the scan goes on after the match
RECURSIVE replaceWordsFrom(_, _, _)
replaceWordsFrom(s, i, alts) ==
    IF i > Len(s) THEN <<>>
    ELSE IF \E k \in DOMAIN alts : MatchesWordAt(s, i, alts[k])
    THEN LET k == CHOOSE k \in DOMAIN alts :
                    /\ MatchesWordAt(s, i, alts[k])
                    /\ \A j \in 1..(k - 1) : ~MatchesWordAt(s, i, alts[j])
         IN  replaceWordsFrom(s, i + Len(alts[k]), alts)
    ELSE <<s[i]>> \o replaceWordsFrom(s, i + 1, alts)

replaceWords(s, alts) == replaceWordsFrom(s, 1, alts)

\* String.prototype.trim
trim(s) ==
    IF \A i \in 1..Len(s) : IsSpace(s[i]) THEN <<>>
    ELSE LET first == CHOOSE i \in 1..Len(s) :
                        ~IsSpace(s[i]) /\ \A j \in 1..(i - 1) : IsSpace(s[j])
             last  == CHOOSE i \in 1..Len(s) :
                        ~IsSpace(s[i]) /\ \A j \in (i + 1)..Len(s) : IsSpace(s[j])
         IN  SubSeq(s, first, last)

\* s.split(/\s+/): the fields between the maximal runs of white space; a
\* string without white space (the empty string too) is one field
RECURSIVE splitWhitespace(_)
splitWhitespace(s) ==
    IF \A i \in 1..Len(s) : ~IsSpace(s[i]) THEN <<s>>
    ELSE LET i == CHOOSE i \in 1..Len(s) :
                    IsSpace(s[i]) /\ \A j \in 1..(i - 1) : ~IsSpace(s[j])
             j == CHOOSE j \in i..Len(s) :
                    /\ \A k \in i..j : IsSpace(s[k])
                    /\ (j = Len(s) \/ ~IsSpace(s[j + 1]))
         IN  <<SubSeq(s, 1, i - 1)>> \o splitWhitespace(SubSeq(s, j + 1, Len(s)))

\* Array.prototype.join
RECURSIVE join(_, _)
join(parts, sep) ==
    IF Len(parts) = 0 THEN <<>>
    ELSE IF Len(parts) = 1 THEN parts[1]
    ELSE parts[1] \o sep \o join(Tail(parts), sep)

\* Array.prototype.filter, for the two predicates normalizeQuery filters by
RECURSIVE filterNonEmpty(_)
filterNonEmpty(terms) ==
    IF Len(terms) = 0 THEN <<>>
    ELSE (IF Len(Head(terms)) > 0 THEN <<Head(terms)>> ELSE <<>>)
         \o filterNonEmpty(Tail(terms))

(***************************************************************************)
(* normalizeQuery (mcp-server.ts lines 79-153).                            *)
(***************************************************************************)
\* line 81: the query already holds Datadog syntax
isStructured_noOR(query) ==
    includes(query, L.colon) \/ includes(query, L.AND)

isStructured(query) ==
    includes(query, L.colon) \/ includes(query, L.AND) \/ includes(query, L.OR)

\* line 89: the condition of the service rule
hasServiceWord(normalizedQuery) ==
    \/ includes(normalizedQuery, L.service)
    \/ includes(normalizedQuery, L.api)
    \/ includes(normalizedQuery, L.server)

\* lines 91 and 92: the alternatives of the two regular expressions, in
\* the order the regular expression tries them (logs? tries "logs" first)
ServiceWordAlts == << L.service, L.api, L.server >>
ServiceStopAlts ==
    << L.logs, L.log, L.from, L.for, L.in, L.the, L.check, L.show, L.find >>

\* lines 90-95
serviceTerms_keepStopWords(normalizedQuery) ==
    filterNonEmpty(splitWhitespace(trim(
        replaceWords(normalizedQuery, ServiceWordAlts))))

serviceTerms(normalizedQuery) ==
    filterNonEmpty(splitWhitespace(trim(
        replaceWords(replaceWords(normalizedQuery, ServiceWordAlts),
                     ServiceStopAlts))))

\* terms.map(term => `service:*${term}*`)
serviceClauses(terms) ==
    [ i \in 1..Len(terms) |-> L.serviceStar \o terms[i] \o L.star ]

\* terms.map(word => `*${word}*`)
contentClauses(terms) ==
    [ i \in 1..Len(terms) |-> L.star \o terms[i] \o L.star ]

\* line 100
hasErrorTerms_errorOnly(normalizedQuery) ==
    includes(normalizedQuery, L.error)

hasErrorTerms(normalizedQuery) ==
    includes(normalizedQuery, L.error) \/ includes(normalizedQuery, L.fail)

\* lines 97-106, for a non-empty list of service terms
serviceRule(normalizedQuery, terms) ==
    LET serviceQuery == join(serviceClauses(terms), L.sepOR)
    IN  IF hasErrorTerms(normalizedQuery)
        THEN L.lparen \o serviceQuery \o L.andStatusError
        ELSE serviceQuery

\* lines 109-132: the rules with a fixed clause, in the order of the code;
\* the clause as a one-element sequence, << >> when none of them applies
fixedRule_warnFirst(normalizedQuery) ==
    IF includes(normalizedQuery, L.warn)
    THEN <<L.statusWarn>>
    ELSE IF includes(normalizedQuery, L.error) /\ ~includes(normalizedQuery, L.service)
    THEN <<L.statusError>>
    ELSE IF \/ includes(normalizedQuery, L.auth)
            \/ includes(normalizedQuery, L.login)
            \/ includes(normalizedQuery, L.token)
    THEN <<L.authClause>>
    ELSE IF \/ includes(normalizedQuery, L.database)
            \/ includes(normalizedQuery, L.db)
            \/ includes(normalizedQuery, L.sql)
    THEN <<L.dbClause>>
    ELSE IF \/ includes(normalizedQuery, L.payment)
            \/ includes(normalizedQuery, L.transaction)
    THEN <<L.paymentClause>>
    ELSE << >>

fixedRule(normalizedQuery) ==
    IF includes(normalizedQuery, L.error) /\ ~includes(normalizedQuery, L.service)
    THEN <<L.statusError>>
    ELSE IF includes(normalizedQuery, L.warn)
    THEN <<L.statusWarn>>
    ELSE IF \/ includes(normalizedQuery, L.auth)
            \/ includes(normalizedQuery, L.login)
            \/ includes(normalizedQuery, L.token)
    THEN <<L.authClause>>
    ELSE IF \/ includes(normalizedQuery, L.database)
            \/ includes(normalizedQuery, L.db)
            \/ includes(normalizedQuery, L.sql)
    THEN <<L.dbClause>>
    ELSE IF \/ includes(normalizedQuery, L.payment)
            \/ includes(normalizedQuery, L.transaction)
    THEN <<L.paymentClause>>
    ELSE << >>

\* line 137: the words the last rule drops
GenericStopWords ==
    { L.logs, L.from, L.for, L.in, L.the, L.and, L.or, L.with,
      L.check, L.show, L.find, L.get }

\* lines 135-138 were the filter to keep the short words
RECURSIVE filterMeaningful_keepShort(_)
filterMeaningful_keepShort(ws) ==
    IF Len(ws) = 0 THEN <<>>
    ELSE (IF Len(Head(ws)) > 0 /\ Head(ws) \notin GenericStopWords
          THEN <<Head(ws)>> ELSE <<>>)
         \o filterMeaningful_keepShort(Tail(ws))

\* lines 135-138
RECURSIVE filterMeaningful(_)
filterMeaningful(ws) ==
    IF Len(ws) = 0 THEN <<>>
    ELSE (IF Len(Head(ws)) > 2 /\ Head(ws) \notin GenericStopWords
          THEN <<Head(ws)>> ELSE <<>>)
         \o filterMeaningful(Tail(ws))

\* lines 134-152: the word rule and the fallback
wordRule_lowerCasedFallback(query, normalizedQuery) ==
    LET words == filterMeaningful(splitWhitespace(normalizedQuery))
    IN  IF Len(words) > 0
        THEN IF Len(words) = 1
             THEN L.serviceStar \o words[1] \o L.star \o L.sepOR
                  \o L.star \o words[1] \o L.star
             ELSE L.lparen \o join(serviceClauses(words), L.sepOR)
                  \o L.parenOrParen \o join(contentClauses(words), L.sepAND)
                  \o L.rparen
        ELSE L.star \o normalizedQuery \o L.star

wordRule(query, normalizedQuery) ==
    LET words == filterMeaningful(splitWhitespace(normalizedQuery))
    IN  IF Len(words) > 0
        THEN IF Len(words) = 1
             THEN L.serviceStar \o words[1] \o L.star \o L.sepOR
                  \o L.star \o words[1] \o L.star
             ELSE L.lparen \o join(serviceClauses(words), L.sepOR)
                  \o L.parenOrParen \o join(contentClauses(words), L.sepAND)
                  \o L.rparen
        ELSE L.star \o query \o L.star

normalizeQuery(query) ==
    IF isStructured(query) THEN query
    ELSE LET normalizedQuery == toLowerCase(query)
         IN  IF /\ hasServiceWord(normalizedQuery)
                /\ Len(serviceTerms(normalizedQuery)) > 0
             THEN serviceRule(normalizedQuery, serviceTerms(normalizedQuery))
             ELSE IF fixedRule(normalizedQuery) # << >>
             THEN fixedRule(normalizedQuery)[1]
             ELSE wordRule(query, normalizedQuery)

(***************************************************************************)
(* The formatters (formatters.ts): formatLogsAsTable,                      *)
(* formatLogsAsEnhancedTable, truncateMessage, formatTable.                *)
(*                                                                         *)
(* A log is [attributes |-> a], a a function from attribute keys to        *)
(* strings; a key outside DOMAIN a is an absent attribute.  The box        *)
(* drawing characters U+2502 and U+2500 of formatTable, one UTF-16 unit    *)
(* each, are written "|" and "-".                                          *)
(***************************************************************************)
\* the string literals of the formatters
F ==
    [ noLogs |-> <<"N","o"," ","l","o","g","s"," ","f","o","u","n","d",".">>,
      na |-> <<"N","/","A">>,
      ellipsis |-> <<".",".",".">>,
      bar |-> <<" ","|"," ">>,
      rule |-> "-",
      newline |-> <<"\n">>,
      space |-> <<" ">>,
      Timestamp |-> <<"T","i","m","e","s","t","a","m","p">>,
      Status |-> <<"S","t","a","t","u","s">>,
      Service |-> <<"S","e","r","v","i","c","e">>,
      Host |-> <<"H","o","s","t">>,
      Message |-> <<"M","e","s","s","a","g","e">> ]

\* attrs[key] || fallback, for a string attribute: an absent attribute and
\* the empty string are both falsy
orElse(attrs, key, fallback) ==
    IF key \in DOMAIN attrs /\ attrs[key] # << >> THEN attrs[key] ELSE fallback

\* truncateMessage(message, maxLength)
truncateMessage(message, maxLength) ==
    IF Len(message) <= maxLength THEN message
    ELSE SubSeq(message, 1, maxLength - 3) \o F.ellipsis

Max(a, b) == IF a >= b THEN a ELSE b

\* Math.max(...xs) of a non-empty sequence of numbers
RECURSIVE MaxOf(_)
MaxOf(xs) == IF Len(xs) = 1 THEN xs[1] ELSE Max(xs[1], MaxOf(Tail(xs)))

\* (row[index] || ''): a cell the row does not have reads as undefined
cellOrEmpty(row, index) == IF index \in DOMAIN row THEN row[index] ELSE << >>

\* String.prototype.padEnd(width) with spaces
padEnd(s, width) ==
    IF Len(s) >= width THEN s ELSE s \o [ i \in 1..(width - Len(s)) |-> " " ]

\* String.prototype.repeat of a one-character string
repeat(c, n) == IF n <= 0 THEN << >> ELSE [ i \in 1..n |-> c ]

\* formatTable: const columnWidths = headers.map(...)
\* (Math.max() of no rows is -Infinity, and the header's length is the width)
columnWidths(headers, rows) ==
    [ index \in 1..Len(headers) |->
        IF Len(rows) = 0 THEN Len(headers[index])
        ELSE Max(Len(headers[index]),
                 MaxOf([ r \in 1..Len(rows) |-> Len(cellOrEmpty(rows[r], index)) ])) ]

RECURSIVE Sum(_)
Sum(xs) == IF Len(xs) = 0 THEN 0 ELSE xs[1] + Sum(Tail(xs))

\* formatTable: columnWidths.reduce((sum, width) => sum + width + 3, -1)
separatorLength(widths) ==
    Sum([ i \in 1..Len(widths) |-> widths[i] + 3 ]) - 1

\* formatTable: one line of the table; a cell beyond the headers has the
\* width undefined and is not padded
tableLine(cells, widths) ==
    join([ index \in 1..Len(cells) |->
             IF index \in DOMAIN widths
             THEN padEnd(cells[index], widths[index])
             ELSE cells[index] ],
         F.bar)

\* formatTable(headers, rows)
formatTable(headers, rows) ==
    LET widths    == columnWidths(headers, rows)
        separator == repeat(F.rule, separatorLength(widths))
        headerRow == tableLine(headers, widths)
        dataRows  == [ r \in 1..Len(rows) |-> tableLine(rows[r], widths) ]
    IN  join(<<headerRow, separator>> \o dataRows, F.newline)

\* formatLogsAsTable: the row of one log
tableRow(log) ==
    << orElse(log.attributes, "timestamp", << >>),
       orElse(log.attributes, "status", F.na),
       orElse(log.attributes, "service", F.na),
       orElse(log.attributes, "host", F.na),
       truncateMessage(orElse(log.attributes, "message", << >>), 100) >>

\* formatLogsAsTable(logs)
formatLogsAsTable_noEmptyCheck(logs) ==
    formatTable(<<F.Timestamp, F.Status, F.Service, F.Host, F.Message>>,
                [ i \in 1..Len(logs) |-> tableRow(logs[i]) ])

formatLogsAsTable(logs) ==
    IF Len(logs) = 0 THEN F.noLogs
    ELSE formatTable(<<F.Timestamp, F.Status, F.Service, F.Host, F.Message>>,
                     [ i \in 1..Len(logs) |-> tableRow(logs[i]) ])

\* typeof log.attributes[key] === 'number': a log names, in its optional field
\* `numbers`, the attributes whose value is a number; attributes[key] is then
\* the text toString() gives for it
isNumber(log, key) == "numbers" \in DOMAIN log /\ key \in log.numbers

\* a value's truthiness: an absent attribute, the empty string and the number
\* 0 are falsy
truthy(log, key) ==
    /\ key \in DOMAIN log.attributes
    /\ log.attributes[key] # << >>
    /\ ~(isNumber(log, key) /\ log.attributes[key] = <<"0">>)

\* getAttributeValue were it `attributes[key] || attributes['@' + key]`
getAttributeValue_bareFirst(log, key) ==
    IF truthy(log, key) THEN key
    ELSE IF ("@" \o key) \in DOMAIN log.attributes THEN "@" \o key
    ELSE ""

\* getAttributeValue(attributes, key), second formatters.ts, lines 341-344:
\* the key of the attribute whose value `attributes['@' + key] ||
\* attributes[key]` is, or "" when that value is undefined
getAttributeValue(log, key) ==
    IF truthy(log, "@" \o key) THEN "@" \o key
    ELSE IF key \in DOMAIN log.attributes THEN key
    ELSE ""

\* getAttributeValue(attrs, key) || fallback, as the text of the cell
getAttributeValueOr(log, key, fallback) ==
    IF getAttributeValue(log, key) # "" /\ truthy(log, getAttributeValue(log, key))
    THEN log.attributes[getAttributeValue(log, key)]
    ELSE fallback

\* the cell getAttributeValue(attrs, key) || 'N/A' is a number, not a string
cellIsNumber(log, key) ==
    /\ getAttributeValue(log, key) # ""
    /\ truthy(log, getAttributeValue(log, key))
    /\ isNumber(log, getAttributeValue(log, key))

\* an exception leaving a formatter, in the place of the string it returns
Throws(name) == <<"throw", name>>

\* the headers of the second formatters.ts, line 322
F2 ==
    [ TraceID |-> <<"T","r","a","c","e"," ","I","D">>,
      UserID |-> <<"U","s","e","r"," ","I","D">>,
      HTTPStatus |-> <<"H","T","T","P"," ","S","t","a","t","u","s">> ]

\* formatLogsAsTable of the second formatters.ts, lines 323-335: the row of
\* one log
tableRow2(log) ==
    << orElse(log.attributes, "timestamp", << >>),
       orElse(log.attributes, "status", F.na),
       orElse(log.attributes, "service", F.na),
       orElse(log.attributes, "host", F.na),
       getAttributeValueOr(log, "trace_id", F.na),
       getAttributeValueOr(log, "user.id", F.na),
       getAttributeValueOr(log, "http.status_code", F.na),
       truncateMessage(orElse(log.attributes, "message", << >>), 80) >>

\* formatLogsAsTable of the second formatters.ts, lines 316-338.  A cell that
\* is a number has neither length nor padEnd: formatTable's line 455 throws
\* a TypeError for its row
formatLogsAsTable2(logs) ==
    IF Len(logs) = 0 THEN F.noLogs
    ELSE IF \E i \in 1..Len(logs) :
               \E key \in {"trace_id", "user.id", "http.status_code"} :
                   cellIsNumber(logs[i], key)
    THEN Throws("TypeError")
    ELSE formatTable(<<F.Timestamp, F.Status, F.Service, F.Host,
                       F2.TraceID, F2.UserID, F2.HTTPStatus, F.Message>>,
                     [ i \in 1..Len(logs) |-> tableRow2(logs[i]) ])

\* formatLogsAsEnhancedTable: priorityAttributes after the four basic ones
\* (which line 379 and line 405 skip)
priorityAttributes ==
    << "trace_id", "@trace_id", "user.id", "@user.id",
       "http.status_code", "@http.status_code", "error.kind", "@error.kind",
       "span_id", "@span_id", "request_id", "@request_id" >>

\* the characters of an attribute key
KeyChars ==
    [ k \in Range(priorityAttributes) |->
        CASE k = "trace_id" -> <<"t","r","a","c","e","_","i","d">>
          [] k = "@trace_id" -> <<"@","t","r","a","c","e","_","i","d">>
          [] k = "user.id" -> <<"u","s","e","r",".","i","d">>
          [] k = "@user.id" -> <<"@","u","s","e","r",".","i","d">>
          [] k = "http.status_code" -> <<"h","t","t","p",".","s","t","a","t","u","s","_","c","o","d","e">>
          [] k = "@http.status_code" -> <<"@","h","t","t","p",".","s","t","a","t","u","s","_","c","o","d","e">>
          [] k = "error.kind" -> <<"e","r","r","o","r",".","k","i","n","d">>
          [] k = "@error.kind" -> <<"@","e","r","r","o","r",".","k","i","n","d">>
          [] k = "span_id" -> <<"s","p","a","n","_","i","d">>
          [] k = "@span_id" -> <<"@","s","p","a","n","_","i","d">>
          [] k = "request_id" -> <<"r","e","q","u","e","s","t","_","i","d">>
          [] k = "@request_id" -> <<"@","r","e","q","u","e","s","t","_","i","d">> ]

\* logs.some(log => log.attributes[attr] !== undefined)
isPresent(logs, attr) ==
    \E i \in 1..Len(logs) : attr \in DOMAIN logs[i].attributes

\* priorityAttributes.filter(...), without the four basic attributes
presentPriorityAttrs(logs) ==
    SelectSeq(priorityAttributes, LAMBDA attr : isPresent(logs, attr))

\* s.replace(c, by) with a string pattern: the first occurrence only
replaceFirst(s, c, by) ==
    IF \E i \in 1..Len(s) : s[i] = c
    THEN LET i == CHOOSE i \in 1..Len(s) : s[i] = c /\ \A j \in 1..(i - 1) : s[j] # c
         IN  SubSeq(s, 1, i - 1) \o by \o SubSeq(s, i + 1, Len(s))
    ELSE s

LowerCaseChars == Range(LowerCase)

\* String.prototype.toUpperCase of one character
toUpperCaseChar(c) ==
    IF c \in LowerCaseChars
    THEN UpperCase[CHOOSE i \in DOMAIN LowerCase : LowerCase[i] = c]
    ELSE c

\* lines 381-384: the header of a priority attribute.
\* split(' ').map(capitalise).join(' ') capitalises the first character and
\* each character that follows a space
headerName(attr) ==
    LET plain == replaceFirst(replaceFirst(replaceFirst(KeyChars[attr],
                     "@", << >>), ".", F.space), "_", F.space)
    IN  [ i \in 1..Len(plain) |->
            IF i = 1 \/ plain[i - 1] = " "
            THEN toUpperCaseChar(plain[i]) ELSE plain[i] ]

\* lines 376-390: the headers of the present priority attributes, each name
\* once
RECURSIVE dynamicHeadersFrom_noIncludesCheck(_, _)
dynamicHeadersFrom_noIncludesCheck(attrs, done) ==
    IF Len(attrs) = 0 THEN done
    ELSE dynamicHeadersFrom_noIncludesCheck(Tail(attrs),
            Append(done, headerName(Head(attrs))))

RECURSIVE dynamicHeadersFrom(_, _)
dynamicHeadersFrom(attrs, done) ==
    IF Len(attrs) = 0 THEN done
    ELSE dynamicHeadersFrom(Tail(attrs),
            IF headerName(Head(attrs)) \in Range(done) THEN done
            ELSE Append(done, headerName(Head(attrs))))

dynamicHeaders(logs) == dynamicHeadersFrom(presentPriorityAttrs(logs), << >>)

\* lines 394-415: the row of one log
enhancedRow(log, present) ==
    << orElse(log.attributes, "timestamp", << >>),
       orElse(log.attributes, "status", F.na),
       orElse(log.attributes, "service", F.na),
       orElse(log.attributes, "host", F.na) >>
    \o [ k \in 1..Len(present) |-> orElse(log.attributes, present[k], F.na) ]
    \o << truncateMessage(orElse(log.attributes, "message", << >>), 60) >>

\* formatLogsAsEnhancedTable(logs)
formatLogsAsEnhancedTable(logs) ==
    IF Len(logs) = 0 THEN F.noLogs
    ELSE formatTable(
            <<F.Timestamp, F.Status, F.Service, F.Host>>
                \o dynamicHeaders(logs) \o <<F.Message>>,
            [ i \in 1..Len(logs) |->
                enhancedRow(logs[i], presentPriorityAttrs(logs)) ])

\* the value of a field of formatLogForCsv's record: a string, a number, or
\* undefined
NumberValue(s) == [type |-> "number", value |-> s]

\* attrs[key] || '' for a string attribute
csvField(log, key) == StringValue(orElse(log.attributes, key, << >>))

\* getAttributeValue(attrs, key) || ''
csvAttribute(log, key) ==
    IF cellIsNumber(log, key)
    THEN NumberValue(log.attributes[getAttributeValue(log, key)])
    ELSE StringValue(getAttributeValueOr(log, key, << >>))

\* attrs.tags ? attrs.tags.join(', ') : ''
csvTags(log) ==
    StringValue(IF "tags" \in DOMAIN log.attributes
                THEN join(log.attributes.tags, <<",", " ">>)
                ELSE << >>)

\* attrs.timestamp, which has no `|| ''`
csvTimestamp(log) ==
    IF "timestamp" \in DOMAIN log.attributes
    THEN StringValue(log.attributes.timestamp)
    ELSE Undefined

\* formatLogForCsv of the first formatters.ts, lines 273-282
formatLogForCsv1(log) ==
    [ timestamp |-> csvTimestamp(log),
      message |-> csvField(log, "message"),
      status |-> csvField(log, "status"),
      service |-> csvField(log, "service"),
      host |-> csvField(log, "host"),
      tags |-> csvTags(log) ]

\* formatLogForCsv of the second formatters.ts, lines 420-433
formatLogForCsv(log) ==
    [ timestamp |-> csvTimestamp(log),
      message |-> csvField(log, "message"),
      status |-> csvField(log, "status"),
      service |-> csvField(log, "service"),
      host |-> csvField(log, "host"),
      trace_id |-> csvAttribute(log, "trace_id"),
      user_id |-> csvAttribute(log, "user.id"),
      http_status_code |-> csvAttribute(log, "http.status_code"),
      tags |-> csvTags(log) ]

\* the logs given to the formatters: with and without the optional
\* attributes, with a message longer than the table shows, with a priority
\* attribute under its plain key, its '@' key, or both, with a number for
\* an attribute, with tags, without a timestamp, with an empty '@' attribute
\* (the backend's JSON is cast to DatadogLogEvent, never validated)
LogSamples ==
    { [ attributes |-> [ timestamp |-> <<"2","0","2","4","-","0","1","-","1","5","T","1","0",":","0","0",":","0","0","Z">>, status |-> <<"e","r","r","o","r">>,
                         service |-> <<"w","e","b">>, host |-> <<"h","1">>,
                         message |-> <<"b","o","o","m">> ] ],
      [ attributes |-> [ timestamp |-> <<"2","0","2","4","-","0","1","-","1","5","T","1","0",":","0","0",":","0","1","Z">> ] ],
      [ attributes |-> [ timestamp |-> <<"2","0","2","4","-","0","1","-","1","5","T","1","0",":","0","0",":","0","2","Z">>, status |-> << >>,
                         message |-> [ i \in 1..101 |-> "m" ],
                         trace_id |-> <<"a","b","c">> ] ],
      [ attributes |-> ("@trace_id" :> <<"x","y","z","1","2">>) @@ ("user.id" :> <<"u","7">>)
                       @@ [ timestamp |-> <<"2","0","2","4","-","0","1","-","1","5","T","1","0",":","0","0",":","0","3","Z">>, service |-> <<"p","a","y","m","e","n","t","s","-","g","a","t","e","w","a","y">> ] ],
      [ attributes |-> ("@trace_id" :> <<"x","y","z","1","2">>) @@ ("http.status_code" :> <<"5","0","0">>)
                       @@ [ timestamp |-> <<"2","0","2","4","-","0","1","-","1","5","T","1","0",":","0","0",":","0","4","Z">>, trace_id |-> <<"a","b","c">>,
                            message |-> [ i \in 1..61 |-> "n" ] ] ],
      [ attributes |-> ("@request_id" :> <<"r","-","1">>) @@ ("error.kind" :> <<"T","i","m","e","o","u","t","E","x","c","e","p","t","i","o","n">>)
                       @@ [ timestamp |-> <<"2","0","2","4","-","0","1","-","1","5","T","1","0",":","0","0",":","0","5","Z">>, status |-> <<"w","a","r","n">>,
                            host |-> <<"p","r","o","d","-","s","e","r","v","e","r","-","0","1">>, span_id |-> << >> ] ],
      [ attributes |-> ("http.status_code" :> <<"5","0","0">>)
                       @@ [ timestamp |-> <<"2","0","2","4","-","0","1","-","1","5","T","1","0",":","0","0",":","0","6","Z">>, status |-> <<"i","n","f","o">>,
                            message |-> <<"o","k">> ],
        numbers |-> {"http.status_code"} ],
      [ attributes |-> [ status |-> <<"i","n","f","o">>, message |-> <<"l","a","t","e">>,
                         tags |-> << <<"e","n","v",":","p","r","o","d">>, <<"t","e","a","m",":","a">> >> ] ],
      [ attributes |-> ("@user.id" :> << >>) @@ ("user.id" :> <<"u","9">>)
                       @@ [ timestamp |-> <<"2","0","2","4","-","0","1","-","1","5","T","1","0",":","0","0",":","0","7","Z">> ] ] }

\* the sequences of at most MaxLogs logs
LogBatches == UNION { [1..n -> LogSamples] : n \in 0..MaxLogs }

CallIds == 1..MaxCalls

\* an invocation that has not arrived
IdleCall == [pc |-> "idle"]

\* the server before any invocation, with the pure-function harness's view
\* of it
ServerAtRest ==
    /\ env = [DD_API_KEY |-> "key", DD_APP_KEY |-> "app"]
    /\ datadogClient = Null
    /\ constructed = 0
    /\ formatters = 1
    /\ calls = [i \in CallIds |-> IdleCall]

(***************************************************************************)
(* The harness of the pure functions: Init draws the argument, the action  *)
(* applies the function once.                                              *)
(***************************************************************************)
\* time references given to parseTimeRange: the twelve tokens, near misses,
\* absolute timestamps, the empty string, inherited keys
TimeRefs ==
    { "1h","2h","4h","6h","12h","24h","1d","2d","3d","7d","14d","30d",
      "1H", "1D", "5h", "24", "h", "1 h", "1h ", " 1h", "48h", "1w", "30m", "",
      "not-a-token", "2024-01-15T10:00:00Z", "1642248000",
      "constructor", "toString", "__proto__", "valueOf" }

InitTime ==
    /\ clock \in ClockValues
    /\ ServerAtRest
    /\ fn = ""
    /\ arg \in [timeRange : TimeRefs]
    /\ ret = NotCalled

CallParseTimeRange ==
    /\ fn = ""
    /\ fn' = "parseTimeRange"
    /\ arg' = [timeRange |-> arg.timeRange, now |-> clock]
    /\ ret' = parseTimeRange(arg.timeRange, clock)
    /\ UNCHANGED <<clock, serverVars>>

NextTime == CallParseTimeRange

SpecTime == InitTime /\ [][NextTime]_vars

\* the words the queries given to normalizeQuery are made of: the keywords
\* of its rules, its stop words, words that hold a keyword without being
\* one, capitalised words, a word with a colon, the empty word (which puts
\* white space at an end of the query or doubles it)
Vocabulary ==
    { << >>, L.service, L.api, L.server, L.error, L.fail, L.warn,
      L.login, L.token, L.db, L.payment,
      L.logs, L.log, L.the, L.for, L.and, L.AND, L.OR,
      <<"a","p","i","s">>,
      <<"m","e","m","b","e","r">>,
      <<"w","e","b">>,
      <<"W","e","b">>,
      <<"g","o">>,
      <<"e","r","r","o","r","s">>,
      <<"E","r","r","o","r">>,
      <<"T","h","e">>,
      <<"F","O","R">>,
      <<"a",":","b">> }

\* the queries the documentation of the tools and the design name
DocumentedQueries ==
    { <<"m","e","m","b","e","r"," ","s","e","r","v","i","c","e">>,
      <<"a","p","i"," ","s","e","r","v","e","r"," ","e","r","r","o","r","s">>,
      <<"e","r","r","o","r"," ","l","o","g","s">>,
      <<"p","a","y","m","e","n","t"," ","e","r","r","o","r","s">>,
      <<"s","e","r","v","i","c","e",":","w","e","b","-","a","p","p"," ","A","N","D"," ","s","t","a","t","u","s",":","e","r","r","o","r">> }

\* the queries of at most MaxWords words of the vocabulary, joined by spaces
Queries ==
    DocumentedQueries \cup
    UNION { { join(ws, L.space) : ws \in [1..n -> Vocabulary] } : n \in 0..MaxWords }

InitQuery ==
    /\ clock = ClockStart
    /\ ServerAtRest
    /\ fn = ""
    /\ arg \in [query : Queries]
    /\ ret = NotCalled

CallNormalizeQuery ==
    /\ fn = ""
    /\ fn' = "normalizeQuery"
    /\ arg' = arg
    /\ ret' = normalizeQuery(arg.query)
    /\ UNCHANGED <<clock, serverVars>>

NextQuery == CallNormalizeQuery

SpecQuery == InitQuery /\ [][NextQuery]_vars

InitTable ==
    /\ clock = ClockStart
    /\ ServerAtRest
    /\ fn = ""
    /\ arg \in [logs : LogBatches]
    /\ ret = NotCalled

CallFormatLogsAsTable ==
    /\ fn = ""
    /\ fn' = "formatLogsAsTable"
    /\ arg' = arg
    /\ ret' = formatLogsAsTable(arg.logs)
    /\ UNCHANGED <<clock, serverVars>>

CallFormatLogsAsEnhancedTable ==
    /\ fn = ""
    /\ fn' = "formatLogsAsEnhancedTable"
    /\ arg' = arg
    /\ ret' = formatLogsAsEnhancedTable(arg.logs)
    /\ UNCHANGED <<clock, serverVars>>

CallFormatLogsAsTable2 ==
    /\ fn = ""
    /\ fn' = "formatLogsAsTable2"
    /\ arg' = arg
    /\ ret' = formatLogsAsTable2(arg.logs)
    /\ UNCHANGED <<clock, serverVars>>

\* response.data.map(formatLogForCsv), mcp-server.ts line 504
CallFormatLogForCsv ==
    /\ fn = ""
    /\ fn' = "formatLogForCsv"
    /\ arg' = arg
    /\ ret' = [ i \in 1..Len(arg.logs) |-> formatLogForCsv(arg.logs[i]) ]
    /\ UNCHANGED <<clock, serverVars>>

CallFormatLogForCsv1 ==
    /\ fn = ""
    /\ fn' = "formatLogForCsv1"
    /\ arg' = arg
    /\ ret' = [ i \in 1..Len(arg.logs) |-> formatLogForCsv1(arg.logs[i]) ]
    /\ UNCHANGED <<clock, serverVars>>

NextTable ==
    \/ CallFormatLogsAsTable
    \/ CallFormatLogsAsTable2
    \/ CallFormatLogsAsEnhancedTable
    \/ CallFormatLogForCsv
    \/ CallFormatLogForCsv1

SpecTable == InitTable /\ [][NextTable]_vars

(***************************************************************************)
(* The server: getDatadogClient, the DatadogClient's searchLogs, tailLogs,  *)
(* checkConnection and makeRequest, and the CallTool handler.               *)
(*                                                                         *)
(* A handler runs without interruption up to its await of the backend      *)
(* (Start...) and again from the backend's answer to its return            *)
(* (Finish...); other invocations and the clock move in between.  What a   *)
(* handler returns or throws goes to the protocol layer before anything    *)
(* else runs (Return), and the slot of the invocation is free again.       *)
(***************************************************************************)
\* an arriving invocation takes the first free slot
Arrives(i) == \A j \in 1..(i - 1) : calls[j].pc # "idle"

\* no handler has returned without its result being handed on
NoneReturning == \A j \in CallIds : calls[j].pc # "done"

\* the check of lines 162-168 were it to look at DD_API_KEY alone
getDatadogClientThrows_apiKeyOnly ==
    datadogClient = Null /\ env.DD_API_KEY = ""

\* getDatadogClient, lines 156-168: no client yet and a credential missing
getDatadogClientThrows ==
    datadogClient = Null /\ (env.DD_API_KEY = "" \/ env.DD_APP_KEY = "")

\* getDatadogClient, lines 157-161 and 170: the client constructed on first
\* use; `id` tells one constructed instance from another
newDatadogClient ==
    [ type |-> "DatadogClient", id |-> constructed + 1,
      apiKey |-> env.DD_API_KEY, appKey |-> env.DD_APP_KEY, region |-> "us1" ]

\* getDatadogClient, lines 156-173, when it does not throw: the client it
\* returns, which is also the global datadogClient from then on
getDatadogClient_newEachTime == newDatadogClient

getDatadogClient ==
    IF datadogClient = Null THEN newDatadogClient ELSE datadogClient

\* the McpError of line 164
MissingCredentials ==
    [ kind |-> "McpError", code |-> "InvalidRequest",
      message |-> "Missing required environment variables: DD_API_KEY and DD_APP_KEY must be set" ]

\* the McpError of line 745
UnknownTool ==
    [ kind |-> "McpError", code |-> "MethodNotFound", message |-> "Unknown tool" ]

\* SearchLogsArgsSchema.parse: the defaults of limit, sort and outputFormat
\* (`to` stays optional)
SearchLogsArgsSchema(args) ==
    [ k \in DOMAIN args \cup {"limit", "sort", "outputFormat"} |->
        IF k \in DOMAIN args THEN args[k]
        ELSE CASE k = "limit" -> 1000
               [] k = "sort" -> "desc"
               [] k = "outputFormat" -> "table" ]

\* TailLogsArgsSchema.parse: the defaults of follow and limit
TailLogsArgsSchema(args) ==
    [ k \in DOMAIN args \cup {"follow", "limit"} |->
        IF k \in DOMAIN args THEN args[k]
        ELSE CASE k = "follow" -> FALSE
               [] k = "limit" -> 1000 ]

\* ExportLogsArgsSchema.parse: the default of limit
ExportLogsArgsSchema(args) ==
    [ k \in DOMAIN args \cup {"limit"} |->
        IF k \in DOMAIN args THEN args[k] ELSE 1000 ]

\* GetLogsByTraceIdArgsSchema.parse: the defaults of limit, sort and
\* outputFormat
GetLogsByTraceIdArgsSchema(args) ==
    [ k \in DOMAIN args \cup {"limit", "sort", "outputFormat"} |->
        IF k \in DOMAIN args THEN args[k]
        ELSE CASE k = "limit" -> 1000
               [] k = "sort" -> "asc"
               [] k = "outputFormat" -> "table" ]

\* validatedArgs.to is given and not the empty string (which || skips)
hasTo(validatedArgs) == "to" \in DOMAIN validatedArgs /\ validatedArgs.to # ""

\* validatedArgs.from is given and not the empty string
hasFrom(validatedArgs) == "from" \in DOMAIN validatedArgs /\ validatedArgs.from # ""

\* search_logs, lines 366-381: fromTime and toTime
searchTimes(validatedArgs, now) ==
    LET timeRange == parseTimeRange(validatedArgs.from, now)
    IN  IF timeRange # Null
        THEN [ fromTime |-> timeRange.from,
               toTime |-> IF hasTo(validatedArgs) THEN Text(validatedArgs.to)
                          ELSE timeRange.to ]
        ELSE [ fromTime |-> Text(validatedArgs.from),
               toTime |-> IF hasTo(validatedArgs) THEN Text(validatedArgs.to)
                          ELSE toISOString(now) ]

\* export_logs, lines 471-485: fromTime and toTime
exportTimes(validatedArgs, now) ==
    LET timeRange == parseTimeRange(validatedArgs.from, now)
    IN  [ fromTime |-> IF timeRange # Null THEN timeRange.from
                       ELSE Text(validatedArgs.from),
          toTime |-> Text(validatedArgs.to) ]

\* get_logs_by_trace_id, lines 683-704: fromTime and toTime
traceTimes_defaultHour(validatedArgs, now) ==
    IF hasFrom(validatedArgs)
    THEN searchTimes(validatedArgs, now)
    ELSE [ fromTime |-> toISOString(now - 60 * 60),
           toTime |-> IF hasTo(validatedArgs) THEN Text(validatedArgs.to)
                      ELSE toISOString(now) ]

traceTimes(validatedArgs, now) ==
    IF hasFrom(validatedArgs)
    THEN searchTimes(validatedArgs, now)
    ELSE [ fromTime |-> toISOString(now - 24 * 60 * 60),
           toTime |-> IF hasTo(validatedArgs) THEN Text(validatedArgs.to)
                      ELSE toISOString(now) ]

\* Math.min
Min(a, b) == IF a <= b THEN a ELSE b

\* DatadogClient.searchLogs: the body it posts (limit = 1000 and
\* sort = 'desc' stand in for an option that is undefined)
searchLogsBody_limitAsGiven(options) ==
    [ filter |-> [ from |-> options.from, to |-> options.to,
                   query |-> IF options.query # << >> THEN options.query ELSE <<"*">> ],
      sort |-> IF "sort" \in DOMAIN options /\ options.sort = "asc"
               THEN "timestamp" ELSE "-timestamp",
      page |-> [ limit |-> IF "limit" \in DOMAIN options THEN options.limit
                           ELSE 1000 ] ]

searchLogsBody_sortAsGiven(options) ==
    [ filter |-> [ from |-> options.from, to |-> options.to,
                   query |-> IF options.query # << >> THEN options.query ELSE <<"*">> ],
      sort |-> IF "sort" \in DOMAIN options THEN options.sort ELSE "-timestamp",
      page |-> [ limit |-> Min(IF "limit" \in DOMAIN options THEN options.limit
                               ELSE 1000, 1000) ] ]

searchLogsBody(options) ==
    [ filter |-> [ from |-> options.from, to |-> options.to,
                   query |-> IF options.query # << >> THEN options.query ELSE <<"*">> ],
      sort |-> IF "sort" \in DOMAIN options /\ options.sort = "asc"
               THEN "timestamp" ELSE "-timestamp",
      page |-> [ limit |-> Min(IF "limit" \in DOMAIN options THEN options.limit
                               ELSE 1000, 1000) ] ]

\* tailLogs were line 100 to take every `from` that is supplied, the empty
\* string too
tailLogsBody_fromAsSupplied(options, now, later) ==
    [ filter |-> [ from |-> IF "from" \in DOMAIN options THEN Text(options.from)
                            ELSE toISOString(now - 60),
                   to |-> toISOString(later),
                   query |-> IF options.query # << >> THEN options.query ELSE <<"*">> ],
      sort |-> "-timestamp",
      page |-> [ limit |-> Min(IF "limit" \in DOMAIN options THEN options.limit
                               ELSE 1000, 1000) ] ]

\* DatadogClient.tailLogs: the body it posts; `follow` is not read.  Line 100
\* reads the clock (now) and line 101 reads it again (later)
tailLogsBody(options, now, later) ==
    [ filter |-> [ from |-> IF hasFrom(options) THEN Text(options.from)
                            ELSE toISOString(now - 60),
                   to |-> toISOString(later),
                   query |-> IF options.query # << >> THEN options.query ELSE <<"*">> ],
      sort |-> "-timestamp",
      page |-> [ limit |-> Min(IF "limit" \in DOMAIN options THEN options.limit
                               ELSE 1000, 1000) ] ]

\* the requests one call of client.tailLogs makes
tailLogsRequests_pollWhenFollowing(options, now, later) ==
    IF options.follow
    THEN << tailLogsBody(options, now, later), tailLogsBody(options, now, later) >>
    ELSE << tailLogsBody(options, now, later) >>

tailLogsRequests(options, now, later) == << tailLogsBody(options, now, later) >>

\* DatadogClient.checkConnection, lines 125-134: the body it posts; its two
\* clock readings are taken to be the same second
testBody(now) ==
    [ filter |-> [ from |-> toISOString(now - 60), to |-> toISOString(now),
                   query |-> <<"*">> ],
      page |-> [ limit |-> 1 ] ]

\* makeRequest, lines 54-71: the message of the Error thrown for a response
\* that is not ok
friendlyMessage(status) ==
    IF status = 401
    THEN "Invalid API credentials. Please check your DD_API_KEY and DD_APP_KEY."
    ELSE IF status = 403
    THEN "Access denied. Please verify your Datadog permissions and API key scopes."
    ELSE IF status = 429
    THEN "Rate limit exceeded. Please wait a moment before trying again."
    ELSE IF status >= 500
    THEN "Datadog service temporarily unavailable. Please try again later."
    ELSE "Request failed with status (status). (errorText)"

\* the logs a 200 of the backend carries
ResponseBatches ==
    { b \in LogBatches : Len(b) = 0 \/ (Len(b) = 1 /\ "status" \in DOMAIN b[1].attributes) }

\* what the backend answers: the logs of a 200, a status that is not ok, or
\* no answer at all (fetch rejects)
Outcomes ==
    { [ok |-> TRUE, data |-> d] : d \in ResponseBatches }
    \cup { [ok |-> FALSE, status |-> s] : s \in {401, 403, 429, 500, 400} }
    \cup { [ok |-> FALSE, status |-> 0] }

\* what makeRequest saw of the backend's answer: response.ok and
\* response.status (status 0: fetch rejected, there is no response), and
\* the logs of the response.json() it returns
answer(outcome) ==
    IF outcome.ok THEN [ ok |-> TRUE, status |-> 200, data |-> outcome.data ]
    ELSE [ ok |-> FALSE, status |-> outcome.status ]

\* the message of the Error that client.searchLogs / tailLogs rejects with
errorMessage(outcome) ==
    IF outcome.status = 0 THEN "fetch failed" ELSE friendlyMessage(outcome.status)

\* the catch of the CallTool handler, lines 752-762: the Error's message in
\* a normal result
errorResult_rethrow(outcome) ==
    [ kind |-> "thrown", isErrorText |-> FALSE, errorMessage |-> errorMessage(outcome) ]

errorResult(outcome) ==
    [ kind |-> "text", isErrorText |-> TRUE, errorMessage |-> errorMessage(outcome) ]

\* queryInfo: the translation shown when normalizeQuery changed the query
queryInfo(call) ==
    IF call.normalizedQuery # call.validatedArgs.query
    THEN <<call.validatedArgs.query, call.normalizedQuery>>
    ELSE << >>

\* the formatLogsAsTable that line 14 of mcp-server.ts imports from
\* './formatters.js': the one of the formatters.ts the build carries
importedFormatLogsAsTable(data) ==
    IF formatters = 1 THEN formatLogsAsTable(data) ELSE formatLogsAsTable2(data)

\* the formatLogForCsv that line 14 imports
importedFormatLogForCsv(log) ==
    IF formatters = 1 THEN formatLogForCsv1(log) ELSE formatLogForCsv(log)

\* the catch of the CallTool handler, lines 752-762, for the TypeError a
\* formatter threw: its message in a normal result
typeErrorResult ==
    [ kind |-> "text", isErrorText |-> TRUE,
      errorMessage |-> "(cell || \"\").padEnd is not a function" ]

\* search_logs, lines 394-421: the text returned, as the parts of its
\* template string
searchLogsResult(call, data) ==
    IF /\ call.validatedArgs.outputFormat # "json"
       /\ importedFormatLogsAsTable(data) = Throws("TypeError")
    THEN typeErrorResult
    ELSE
    [ kind |-> "text", isErrorText |-> FALSE,
      queryInfo |-> queryInfo(call),
      timeInfo |-> <<call.fromTime, call.toTime>>,
      body |-> IF call.validatedArgs.outputFormat = "json"
               THEN [json |-> data]
               ELSE [table |-> importedFormatLogsAsTable(data)] ]

\* tail_logs, lines 435-463: the text returned; fromTime and toTime are
\* computed again, from the clock as it is after the await
tailLogsResult(call, data, now) ==
    IF importedFormatLogsAsTable(data) = Throws("TypeError") THEN typeErrorResult
    ELSE
    [ kind |-> "text", isErrorText |-> FALSE,
      queryInfo |-> queryInfo(call),
      timeInfo |-> << IF hasFrom(call.validatedArgs) THEN Text(call.validatedArgs.from)
                      ELSE toISOString(now - 60),
                      toISOString(now) >>,
      following |-> call.validatedArgs.follow,
      body |-> [table |-> importedFormatLogsAsTable(data)] ]

\* export_logs, lines 497-498: the name of the file written
outputFilename(validatedArgs, now) ==
    IF "filename" \in DOMAIN validatedArgs /\ validatedArgs.filename # ""
    THEN [ name |-> validatedArgs.filename ]
    ELSE [ generatedAt |-> now, extension |-> validatedArgs.format ]

\* export_logs, lines 507-514: the header given to the CSV writer
csvHeader == <<"timestamp", "message", "status", "service", "host", "tags">>

\* export_logs, lines 500-517: the file written
exportedFile(validatedArgs, data) ==
    IF validatedArgs.format = "json" THEN [ json |-> data ]
    ELSE [ header |-> csvHeader,
           records |-> [ i \in 1..Len(data) |-> importedFormatLogForCsv(data[i]) ] ]

\* export_logs, lines 519-531: the text returned, with the file written
exportLogsResult(call, data, now) ==
    [ kind |-> "text", isErrorText |-> FALSE,
      queryInfo |-> queryInfo(call),
      timeInfo |-> <<call.fromTime, call.toTime>>,
      exported |-> Len(data),
      outputFilename |-> outputFilename(call.validatedArgs, now),
      file |-> exportedFile(call.validatedArgs, data) ]

\* get_logs_by_trace_id, lines 717-741: the text returned
traceResult(call, data) ==
    IF /\ call.validatedArgs.outputFormat # "json"
       /\ importedFormatLogsAsTable(data) = Throws("TypeError")
    THEN typeErrorResult
    ELSE
    [ kind |-> "text", isErrorText |-> FALSE,
      traceInfo |-> call.validatedArgs.traceId,
      timeInfo |-> <<call.fromTime, call.toTime>>,
      countInfo |-> Len(data),
      body |-> IF call.validatedArgs.outputFormat = "json"
               THEN [json |-> data]
               ELSE [table |-> importedFormatLogsAsTable(data)] ]

\* check_configuration, lines 637-668: the text returned
checkConfigurationResult(status, message) ==
    [ kind |-> "text", isErrorText |-> FALSE,
      configuration |->
          [ apiKey |-> IF env.DD_API_KEY # "" THEN "***configured***" ELSE "NOT SET",
            appKey |-> IF env.DD_APP_KEY # "" THEN "***configured***" ELSE "NOT SET",
            region |-> "us1 (default)" ],
      connectivity |-> [ status |-> status, message |-> message ] ]

\* a handler that found no credentials: getDatadogClient's McpError leaves
\* the CallTool handler (line 749) before any request
thrownAtStart(tool, args) ==
    [ pc |-> "done", tool |-> tool, args |-> args, startedAt |-> clock,
      requests |-> << >>, thrown |-> MissingCredentials ]

\* what getDatadogClient leaves in the module's state
ClientKept ==
    /\ datadogClient' = getDatadogClient
    /\ constructed' = IF getDatadogClient = datadogClient THEN constructed
                      ELSE constructed + 1

\* an invocation may arrive at slot i
Enters(i) ==
    /\ calls[i].pc = "idle"
    /\ Arrives(i)
    /\ NoneReturning

\* the backend may answer the request of the invocation in slot i
Answers(i, tool) ==
    /\ calls[i].pc = "awaiting"
    /\ calls[i].tool = tool
    /\ NoneReturning

\* search_logs, lines 359-392: from the arrival of the invocation to the
\* await of client.searchLogs
StartSearchLogs(i, args) ==
    /\ Enters(i)
    /\ IF getDatadogClientThrows
       THEN /\ calls' = [calls EXCEPT ![i] = thrownAtStart("search_logs", args)]
            /\ UNCHANGED <<datadogClient, constructed>>
       ELSE LET validatedArgs   == SearchLogsArgsSchema(args)
                normalizedQuery == normalizeQuery(validatedArgs.query)
                times           == searchTimes(validatedArgs, clock)
                searchOptions   == [ query |-> normalizedQuery,
                                     from |-> times.fromTime, to |-> times.toTime,
                                     limit |-> validatedArgs.limit,
                                     sort |-> validatedArgs.sort ]
            IN  /\ ClientKept
                /\ calls' = [calls EXCEPT ![i] =
                        [ pc |-> "awaiting", tool |-> "search_logs", args |-> args,
                          startedAt |-> clock, client |-> getDatadogClient,
                          validatedArgs |-> validatedArgs,
                          normalizedQuery |-> normalizedQuery,
                          fromTime |-> times.fromTime, toTime |-> times.toTime,
                          requests |-> << searchLogsBody(searchOptions) >> ]]
    /\ UNCHANGED <<clock, env, formatters, harnessVars>>

\* search_logs, lines 392-421 and the catch of lines 747-762: from the
\* backend's answer to the handler's return
FinishSearchLogs(i, outcome) ==
    /\ Answers(i, "search_logs")
    /\ calls' = [calls EXCEPT ![i] =
            [ calls[i] EXCEPT !.pc = "done" ] @@
            [ answer |-> answer(outcome),
              result |-> IF outcome.ok THEN searchLogsResult(calls[i], outcome.data)
                         ELSE errorResult(outcome) ]]
    /\ UNCHANGED <<clock, env, datadogClient, constructed, formatters, harnessVars>>

\* the clock readings a second reading may give after a reading of now
LaterReadings(now) == { t \in ClockValues : t = now \/ t = now + 1 }

\* tail_logs, lines 424-433: up to the await of client.tailLogs; the clock
\* is at `later`, tailLogs' second reading, when the request leaves
StartTailLogs(i, args, later) ==
    /\ Enters(i)
    /\ later \in LaterReadings(clock)
    /\ IF getDatadogClientThrows
       THEN /\ later = clock
            /\ calls' = [calls EXCEPT ![i] = thrownAtStart("tail_logs", args)]
            /\ UNCHANGED <<datadogClient, constructed>>
       ELSE LET validatedArgs   == TailLogsArgsSchema(args)
                normalizedQuery == normalizeQuery(validatedArgs.query)
                options == [ k \in DOMAIN validatedArgs |->
                               IF k = "query" THEN normalizedQuery
                               ELSE validatedArgs[k] ]
            IN  /\ ClientKept
                /\ calls' = [calls EXCEPT ![i] =
                        [ pc |-> "awaiting", tool |-> "tail_logs", args |-> args,
                          startedAt |-> clock, client |-> getDatadogClient,
                          validatedArgs |-> validatedArgs,
                          normalizedQuery |-> normalizedQuery,
                          sentAt |-> later,
                          requests |-> tailLogsRequests(options, clock, later) ]]
    /\ clock' = later
    /\ UNCHANGED <<env, formatters, harnessVars>>

\* tail_logs, lines 433-463 and the catch
FinishTailLogs(i, outcome) ==
    /\ Answers(i, "tail_logs")
    /\ calls' = [calls EXCEPT ![i] =
            [ calls[i] EXCEPT !.pc = "done" ] @@
            [ answer |-> answer(outcome),
              result |-> IF outcome.ok
                         THEN tailLogsResult(calls[i], outcome.data, clock)
                         ELSE errorResult(outcome) ]]
    /\ UNCHANGED <<clock, env, datadogClient, constructed, formatters, harnessVars>>

\* export_logs, lines 466-495: up to the await of client.searchLogs
StartExportLogs(i, args) ==
    /\ Enters(i)
    /\ IF getDatadogClientThrows
       THEN /\ calls' = [calls EXCEPT ![i] = thrownAtStart("export_logs", args)]
            /\ UNCHANGED <<datadogClient, constructed>>
       ELSE LET validatedArgs   == ExportLogsArgsSchema(args)
                normalizedQuery == normalizeQuery(validatedArgs.query)
                times           == exportTimes(validatedArgs, clock)
                searchOptions   == [ query |-> normalizedQuery,
                                     from |-> times.fromTime, to |-> times.toTime,
                                     limit |-> validatedArgs.limit ]
            IN  /\ ClientKept
                /\ calls' = [calls EXCEPT ![i] =
                        [ pc |-> "awaiting", tool |-> "export_logs", args |-> args,
                          startedAt |-> clock, client |-> getDatadogClient,
                          validatedArgs |-> validatedArgs,
                          normalizedQuery |-> normalizedQuery,
                          fromTime |-> times.fromTime, toTime |-> times.toTime,
                          requests |-> << searchLogsBody(searchOptions) >> ]]
    /\ UNCHANGED <<clock, env, formatters, harnessVars>>

\* export_logs, lines 495-532 and the catch
FinishExportLogs(i, outcome) ==
    /\ Answers(i, "export_logs")
    /\ calls' = [calls EXCEPT ![i] =
            [ calls[i] EXCEPT !.pc = "done" ] @@
            [ answer |-> answer(outcome),
              result |-> IF outcome.ok
                         THEN exportLogsResult(calls[i], outcome.data, clock)
                         ELSE errorResult(outcome) ]]
    /\ UNCHANGED <<clock, env, datadogClient, constructed, formatters, harnessVars>>

\* get_logs_by_trace_id, lines 677-715: up to the await of client.searchLogs
StartGetLogsByTraceId(i, args) ==
    /\ Enters(i)
    /\ IF getDatadogClientThrows
       THEN /\ calls' = [calls EXCEPT ![i] = thrownAtStart("get_logs_by_trace_id", args)]
            /\ UNCHANGED <<datadogClient, constructed>>
       ELSE LET validatedArgs == GetLogsByTraceIdArgsSchema(args)
                query         == <<"@","t","r","a","c","e","_","i","d",":">>
                                     \o validatedArgs.traceId
                times         == traceTimes(validatedArgs, clock)
                searchOptions == [ query |-> query,
                                   from |-> times.fromTime, to |-> times.toTime,
                                   limit |-> validatedArgs.limit,
                                   sort |-> validatedArgs.sort ]
            IN  /\ ClientKept
                /\ calls' = [calls EXCEPT ![i] =
                        [ pc |-> "awaiting", tool |-> "get_logs_by_trace_id",
                          args |-> args,
                          startedAt |-> clock, client |-> getDatadogClient,
                          validatedArgs |-> validatedArgs,
                          fromTime |-> times.fromTime, toTime |-> times.toTime,
                          requests |-> << searchLogsBody(searchOptions) >> ]]
    /\ UNCHANGED <<clock, env, formatters, harnessVars>>

\* get_logs_by_trace_id, lines 715-742 and the catch
FinishGetLogsByTraceId(i, outcome) ==
    /\ Answers(i, "get_logs_by_trace_id")
    /\ calls' = [calls EXCEPT ![i] =
            [ calls[i] EXCEPT !.pc = "done" ] @@
            [ answer |-> answer(outcome),
              result |-> IF outcome.ok THEN traceResult(calls[i], outcome.data)
                         ELSE errorResult(outcome) ]]
    /\ UNCHANGED <<clock, env, datadogClient, constructed, formatters, harnessVars>>

\* check_configuration, lines 632-636 and 648-668: up to the await of
\* client.checkConnection; its own catch turns getDatadogClient's McpError
\* into a result
StartCheckConfiguration(i) ==
    /\ Enters(i)
    /\ IF getDatadogClientThrows
       THEN /\ calls' = [calls EXCEPT ![i] =
                    [ pc |-> "done", tool |-> "check_configuration",
                      args |-> Undefined, startedAt |-> clock, requests |-> << >>,
                      result |-> checkConfigurationResult("error",
                                                          MissingCredentials.message) ]]
            /\ UNCHANGED <<datadogClient, constructed>>
       ELSE /\ ClientKept
            /\ calls' = [calls EXCEPT ![i] =
                    [ pc |-> "awaiting", tool |-> "check_configuration",
                      args |-> Undefined,
                      startedAt |-> clock, client |-> getDatadogClient,
                      requests |-> << testBody(clock) >> ]]
    /\ UNCHANGED <<clock, env, formatters, harnessVars>>

\* check_configuration, lines 636-647, with checkConnection's lines 141-146
FinishCheckConfiguration(i, outcome) ==
    /\ Answers(i, "check_configuration")
    /\ calls' = [calls EXCEPT ![i] =
            [ calls[i] EXCEPT !.pc = "done" ] @@
            [ answer |-> answer(outcome),
              result |-> IF outcome.ok
                         THEN checkConfigurationResult("connected",
                                  "Successfully connected to Datadog API")
                         ELSE checkConfigurationResult("error", errorMessage(outcome)) ]]
    /\ UNCHANGED <<clock, env, datadogClient, constructed, formatters, harnessVars>>

\* the tools that answer from tables of the handler itself, and the names
\* that are no tool (line 745)
LocalTools == {"get_time_range_suggestions", "get_query_examples"}

CallWithoutBackend(i, name) ==
    /\ Enters(i)
    /\ calls' = [calls EXCEPT ![i] =
            IF name \in LocalTools
            THEN [ pc |-> "done", tool |-> name, args |-> Undefined,
                   startedAt |-> clock, requests |-> << >>,
                   result |-> [ kind |-> "text", isErrorText |-> FALSE ] ]
            ELSE [ pc |-> "done", tool |-> name, args |-> Undefined,
                   startedAt |-> clock, requests |-> << >>,
                   thrown |-> UnknownTool ]]
    /\ UNCHANGED <<clock, env, datadogClient, constructed, formatters, harnessVars>>

\* the result (or the McpError) of the invocation in slot i goes to the
\* protocol layer
Return(i) ==
    /\ calls[i].pc = "done"
    /\ calls' = [calls EXCEPT ![i] = IdleCall]
    /\ UNCHANGED <<clock, env, datadogClient, constructed, formatters, harnessVars>>

\* the clock moves on
Tick ==
    /\ NoneReturning
    /\ clock < ClockStart + MaxClock
    /\ clock' = clock + 1
    /\ UNCHANGED <<serverVars, harnessVars>>

\* the arguments the invocations of search_logs carry
SearchLogsArgs ==
    { [ query |-> <<"p","a","y","m","e","n","t"," ","e","r","r","o","r","s">>, from |-> "1h" ],
      [ query |-> <<"a","p","i"," ","s","e","r","v","e","r"," ","e","r","r","o","r","s">>, from |-> "30d",
        to |-> "2024-01-16T00:00:00Z", limit |-> 50, sort |-> "asc",
        outputFormat |-> "json" ],
      [ query |-> <<"s","e","r","v","i","c","e",":","w","e","b","-","a","p","p"," ","A","N","D"," ","s","t","a","t","u","s",":","e","r","r","o","r">>,
        from |-> "2024-01-15T10:00:00Z", limit |-> 5000 ],
      [ query |-> <<"m","e","m","b","e","r"," ","s","e","r","v","i","c","e">>, from |-> "2024-01-15T10:00:00Z",
        to |-> "2024-01-16T00:00:00Z", sort |-> "desc", outputFormat |-> "table" ],
      [ query |-> << >>, from |-> "constructor" ],
      [ query |-> <<"E","r","r","o","r"," ","l","o","g","s">>, from |-> "1d", to |-> "",
        limit |-> 1000, outputFormat |-> "json" ] }

\* the arguments the invocations of tail_logs carry
TailLogsArgs ==
    { [ query |-> <<"e","r","r","o","r"," ","l","o","g","s">> ],
      [ query |-> <<"s","t","a","t","u","s",":","e","r","r","o","r">>, from |-> "2024-01-15T10:00:00Z",
        follow |-> TRUE, limit |-> 5000 ],
      [ query |-> <<"e","r","r","o","r"," ","l","o","g","s">>, from |-> "", follow |-> TRUE, limit |-> 10 ] }

\* the arguments the invocations of export_logs carry
ExportLogsArgs ==
    { [ query |-> <<"s","t","a","t","u","s",":","e","r","r","o","r">>, from |-> "1h", to |-> "2024-01-16T00:00:00Z",
        format |-> "json" ],
      [ query |-> <<"d","b">>, from |-> "2024-01-15T10:00:00Z",
        to |-> "2024-01-16T00:00:00Z", format |-> "csv",
        filename |-> "out.csv", limit |-> 2000 ] }

\* the arguments the invocations of get_logs_by_trace_id carry: trace ids
\* that normalizeQuery would rewrite among them
TraceArgs ==
    { [ traceId |-> <<"a","b","c","1","2","3">> ],
      [ traceId |-> <<"e","r","r","o","r"," ","l","o","g","s">>, from |-> "1h", to |-> "2024-01-16T00:00:00Z",
        limit |-> 5000, sort |-> "desc", outputFormat |-> "json" ],
      [ traceId |-> <<"a","p","i"," ","s","e","r","v","i","c","e">>, from |-> "2024-01-15T10:00:00Z" ],
      [ traceId |-> <<"a","b","c","1","2","3">>, from |-> "", to |-> "2024-01-16T00:00:00Z" ],
      [ traceId |-> <<"a","b","c","1","2","3">>, to |-> "" ] }

\* the names of the invocations that reach no backend
OtherToolNames == LocalTools \cup {"no_such_tool"}

Init ==
    /\ clock = ClockStart
    /\ env \in [ DD_API_KEY : {"", "key"}, DD_APP_KEY : {"", "app"} ]
    /\ datadogClient = Null
    /\ constructed = 0
    /\ formatters \in {1, 2}
    /\ calls = [i \in CallIds |-> IdleCall]
    /\ fn = ""
    /\ arg = NotCalled
    /\ ret = NotCalled

\* process.env changes: the credentials are set
SetCredentials ==
    /\ NoneReturning
    /\ env.DD_API_KEY = "" \/ env.DD_APP_KEY = ""
    /\ env' = [DD_API_KEY |-> "key", DD_APP_KEY |-> "app"]
    /\ UNCHANGED <<clock, datadogClient, constructed, formatters, calls, harnessVars>>

Next ==
    \/ \E i \in CallIds, args \in SearchLogsArgs : StartSearchLogs(i, args)
    \/ \E i \in CallIds, outcome \in Outcomes : FinishSearchLogs(i, outcome)
    \/ \E i \in CallIds, args \in TailLogsArgs, later \in ClockValues :
           StartTailLogs(i, args, later)
    \/ \E i \in CallIds, outcome \in Outcomes : FinishTailLogs(i, outcome)
    \/ \E i \in CallIds, args \in ExportLogsArgs : StartExportLogs(i, args)
    \/ \E i \in CallIds, outcome \in Outcomes : FinishExportLogs(i, outcome)
    \/ \E i \in CallIds, args \in TraceArgs : StartGetLogsByTraceId(i, args)
    \/ \E i \in CallIds, outcome \in Outcomes : FinishGetLogsByTraceId(i, outcome)
    \/ \E i \in CallIds : StartCheckConfiguration(i)
    \/ \E i \in CallIds, outcome \in Outcomes : FinishCheckConfiguration(i, outcome)
    \/ \E i \in CallIds, name \in OtherToolNames : CallWithoutBackend(i, name)
    \/ \E i \in CallIds : Return(i)
    \/ SetCredentials
    \/ Tick

Spec == Init /\ [][Next]_vars

(***************************************************************************)
(* The claims.                                                             *)
(***************************************************************************)
\* the twelve relative tokens, with the hours the documentation gives each
\* (N for Nh, N * 24 for Nd)
RelativeTokens == {"1h","2h","4h","6h","12h","24h","1d","2d","3d","7d","14d","30d"}

DocumentedHours(token) ==
    CASE token = "1h" -> 1 [] token = "2h" -> 2 [] token = "4h" -> 4
      [] token = "6h" -> 6 [] token = "12h" -> 12 [] token = "24h" -> 24
      [] token = "1d" -> 1 * 24 [] token = "2d" -> 2 * 24 [] token = "3d" -> 3 * 24
      [] token = "7d" -> 7 * 24 [] token = "14d" -> 14 * 24 [] token = "30d" -> 30 * 24

\* C1: for each of the twelve relative tokens and every clock value now,
\* parseTimeRange(token) returns the range whose `to` is now and whose `from`
\* is now minus the token's documented duration.
C1_RelativeTokenRange ==
    (fn = "parseTimeRange" /\ arg.timeRange \in RelativeTokens) =>
        ret = [ from |-> toISOString(arg.now - DocumentedHours(arg.timeRange) * 3600),
                to   |-> toISOString(arg.now) ]

\* C1 witness: 30d was resolved, to the 720 hours before the clock value.
C1_Witness ==
    /\ fn = "parseTimeRange"
    /\ arg.timeRange = "30d"
    /\ arg.now > ClockStart
    /\ ret.from = toISOString(arg.now - 2592000)
    /\ ret.to = toISOString(arg.now)

\* C2: for every reference string that is not exactly one of the twelve
\* relative tokens, parseTimeRange returns null (no such string yields a
\* range).
C2_NonTokenGivesNull ==
    (fn = "parseTimeRange" /\ arg.timeRange \notin RelativeTokens) => ret = Null

\* what the claims mean by "already structured": the query holds a colon,
\* AND or OR
ClaimStructured(q) ==
    \/ includes(q, <<":">>)
    \/ includes(q, <<"A","N","D">>)
    \/ includes(q, <<"O","R">>)

\* C3: for every query q that contains a colon, AND or OR, normalizeQuery(q)
\* is q, character for character, and so is normalizeQuery applied again.
C3_StructuredUnchanged ==
    (fn = "normalizeQuery" /\ ClaimStructured(arg.query)) =>
        /\ ret = arg.query
        /\ normalizeQuery(ret) = arg.query

\* C3 witness: a query that is structured only because a word of it holds
\* the letters OR came back unchanged.
C3_Witness ==
    /\ fn = "normalizeQuery"
    /\ arg.query = <<"F","O","R">>
    /\ ret = <<"F","O","R">>

\* the lower-cased query holds one of service, api, server
ClaimHasServiceWord(q) ==
    \/ includes(toLowerCase(q), <<"s","e","r","v","i","c","e">>)
    \/ includes(toLowerCase(q), <<"a","p","i">>)
    \/ includes(toLowerCase(q), <<"s","e","r","v","e","r">>)

\* the lower-cased query holds error or fail
ClaimHasErrorWord(q) ==
    \/ includes(toLowerCase(q), <<"e","r","r","o","r">>)
    \/ includes(toLowerCase(q), <<"f","a","i","l">>)

\* the words rule 1 strips: service, api, server and its stop words
Rule1StrippedWords ==
    { <<"s","e","r","v","i","c","e">>,
      <<"a","p","i">>,
      <<"s","e","r","v","e","r">>,
      <<"l","o","g","s">>,
      <<"l","o","g">>,
      <<"f","r","o","m">>,
      <<"f","o","r">>,
      <<"i","n">>,
      <<"t","h","e">>,
      <<"c","h","e","c","k">>,
      <<"s","h","o","w">>,
      <<"f","i","n","d">> }

\* the terms that remain of a query under rule 1: its words, lower-cased,
\* in their order, without the stripped ones
RemainingTerms(q) ==
    SelectSeq(splitWhitespace(toLowerCase(q)),
              LAMBDA w : w # << >> /\ w \notin Rule1StrippedWords)

\* 'service:*t1* OR service:*t2* OR ...'
RECURSIVE ServiceClauseList(_)
ServiceClauseList(terms) ==
    IF Len(terms) = 0 THEN << >>
    ELSE <<"s","e","r","v","i","c","e",":","*">> \o Head(terms) \o <<"*">>
         \o (IF Len(terms) = 1 THEN << >>
             ELSE <<" ","O","R"," ">> \o ServiceClauseList(Tail(terms)))

\* C4 as claimed: every not-already-structured query with a service word and
\* without error/fail comes back as the OR-joined service clauses of its
\* remaining terms.
C4_ServiceClausesAlways ==
    ( /\ fn = "normalizeQuery"
      /\ ~ClaimStructured(arg.query)
      /\ ClaimHasServiceWord(arg.query)
      /\ ~ClaimHasErrorWord(arg.query) ) =>
        ret = ServiceClauseList(RemainingTerms(arg.query))

\* C4 as amended: the same, for the queries of which at least one term
\* remains after the stripping; the result has no status:error clause, and
\* "member service" gives service:*member*.
C4_ServiceClausesWhenTermsRemain ==
    ( /\ fn = "normalizeQuery"
      /\ ~ClaimStructured(arg.query)
      /\ ClaimHasServiceWord(arg.query)
      /\ ~ClaimHasErrorWord(arg.query)
      /\ RemainingTerms(arg.query) # << >> ) =>
        /\ ret = ServiceClauseList(RemainingTerms(arg.query))
        /\ ~includes(ret, <<"s","t","a","t","u","s",":","e","r","r","o","r">>)
        /\ (arg.query = <<"m","e","m","b","e","r"," ","s","e","r","v","i","c","e">> =>
                ret = <<"s","e","r","v","i","c","e",":","*","m","e","m","b","e","r","*">>)

\* C4 witness: "member service" was normalized to service:*member*.
C4_Witness ==
    /\ fn = "normalizeQuery"
    /\ arg.query = <<"m","e","m","b","e","r"," ","s","e","r","v","i","c","e">>
    /\ ret = <<"s","e","r","v","i","c","e",":","*","m","e","m","b","e","r","*">>

C6_DocumentedTranslations ==
    fn = "normalizeQuery" =>
        /\ (arg.query = <<"a","p","i"," ","s","e","r","v","e","r"," ","e","r","r","o","r","s">> =>
                ret = <<"s","e","r","v","i","c","e",":","*","a","p","i","*"," ","A","N","D"," ","s","t","a","t","u","s",":","e","r","r","o","r">>)
        /\ (arg.query = <<"e","r","r","o","r"," ","l","o","g","s">> =>
                ret = <<"s","t","a","t","u","s",":","e","r","r","o","r">>)

\* search_logs was invoked with query "payment errors", from "1h" and no
\* `to`, and its request went to the backend
PaymentErrorsSearchSent(i) ==
    /\ calls[i].pc # "idle"
    /\ calls[i].tool = "search_logs"
    /\ calls[i].args = [ query |-> <<"p","a","y","m","e","n","t"," ","e","r","r","o","r","s">>, from |-> "1h" ]
    /\ Len(calls[i].requests) = 1

\* C7 as claimed: for search_logs with query "payment errors", from "1h" and
\* no `to`, the query sent to the backend is the payment clause
\* '*payment* OR *transaction*', with the time range (now - 1 hour, now).
C7_PaymentClauseSent ==
    \A i \in CallIds : PaymentErrorsSearchSent(i) =>
        calls[i].requests[1].filter =
            [ query |-> <<"*","p","a","y","m","e","n","t","*"," ","O","R"," ","*","t","r","a","n","s","a","c","t","i","o","n","*">>,
              from |-> toISOString(calls[i].startedAt - 3600),
              to |-> toISOString(calls[i].startedAt) ]

\* C7 as amended: the query sent is the error clause
\* 'status:error OR *error*' (the error rule stands before the payment
\* rule), with the time range (now - 1 hour, now).
C7_ErrorClauseSent ==
    \A i \in CallIds : PaymentErrorsSearchSent(i) =>
        calls[i].requests[1].filter =
            [ query |-> <<"s","t","a","t","u","s",":","e","r","r","o","r"," ","O","R"," ","*","e","r","r","o","r","*">>,
              from |-> toISOString(calls[i].startedAt - 3600),
              to |-> toISOString(calls[i].startedAt) ]

\* C7 witness: that invocation was made after the clock had moved, sent the
\* error clause and returned the backend's logs.
C7_Witness ==
    \E i \in CallIds :
        /\ PaymentErrorsSearchSent(i)
        /\ calls[i].startedAt > ClockStart
        /\ calls[i].pc = "done"
        /\ ~calls[i].result.isErrorText
        /\ calls[i].requests[1].filter.query = <<"s","t","a","t","u","s",":","e","r","r","o","r"," ","O","R"," ","*","e","r","r","o","r","*">>
        /\ calls[i].requests[1].filter.to = toISOString(calls[i].startedAt)

\* the rules with a fixed clause, in the claimed order: the keywords of
\* each, and its clause
ClaimedRules ==
    << [ keywords |-> { <<"e","r","r","o","r">> },
         clause |-> <<"s","t","a","t","u","s",":","e","r","r","o","r"," ","O","R"," ","*","e","r","r","o","r","*">> ],
       [ keywords |-> { <<"w","a","r","n">> },
         clause |-> <<"s","t","a","t","u","s",":","w","a","r","n"," ","O","R"," ","*","w","a","r","n","*">> ],
       [ keywords |-> { <<"a","u","t","h">>, <<"l","o","g","i","n">>, <<"t","o","k","e","n">> },
         clause |-> <<"*","a","u","t","h","*"," ","O","R"," ","*","l","o","g","i","n","*"," ","O","R"," ","*","t","o","k","e","n","*">> ],
       [ keywords |-> { <<"d","a","t","a","b","a","s","e">>, <<"d","b">>, <<"s","q","l">> },
         clause |-> <<"*","d","a","t","a","b","a","s","e","*"," ","O","R"," ","*","d","b","*"," ","O","R"," ","*","s","q","l","*">> ],
       [ keywords |-> { <<"p","a","y","m","e","n","t">>, <<"t","r","a","n","s","a","c","t","i","o","n">> },
         clause |-> <<"*","p","a","y","m","e","n","t","*"," ","O","R"," ","*","t","r","a","n","s","a","c","t","i","o","n","*">> ] >>

\* rule i's keyword occurs in the lower-cased query
RuleMatches(i, q) ==
    \E k \in ClaimedRules[i].keywords : includes(toLowerCase(q), k)

\* C8: for every not-already-structured query without service, api, server,
\* normalizeQuery returns the clause of the first rule, in the order error,
\* warn, auth/login/token, database/db/sql, payment/transaction, whose
\* keyword occurs in the lower-cased query, whatever later rules match too.
C8_FirstFixedRuleWins ==
    ( /\ fn = "normalizeQuery"
      /\ ~ClaimStructured(arg.query)
      /\ ~ClaimHasServiceWord(arg.query) ) =>
        \A i \in DOMAIN ClaimedRules :
            (RuleMatches(i, arg.query) /\ \A j \in 1..(i - 1) : ~RuleMatches(j, arg.query))
                => ret = ClaimedRules[i].clause

\* C8 witness: a query with the keyword of rule 3 before the keyword of
\* rule 2 got the clause of rule 2.
C8_Witness ==
    /\ fn = "normalizeQuery"
    /\ arg.query = <<"l","o","g","i","n"," ","w","a","r","n">>
    /\ ret = <<"s","t","a","t","u","s",":","w","a","r","n"," ","O","R"," ","*","w","a","r","n","*">>

\* the stop words of the last rule, and those of either rule
ClaimGenericStopWords ==
    { <<"l","o","g","s">>,
      <<"f","r","o","m">>,
      <<"f","o","r">>,
      <<"i","n">>,
      <<"t","h","e">>,
      <<"a","n","d">>,
      <<"o","r">>,
      <<"w","i","t","h">>,
      <<"c","h","e","c","k">>,
      <<"s","h","o","w">>,
      <<"f","i","n","d">>,
      <<"g","e","t">> }

ClaimStopWords == ClaimGenericStopWords \cup
    { <<"l","o","g">> }

\* the query is made of white space and of words of `stop` (the empty
\* query is)
MadeOnlyOf(q, stop) ==
    \A i \in DOMAIN splitWhitespace(q) :
        \/ splitWhitespace(q)[i] = << >>
        \/ splitWhitespace(q)[i] \in stop

\* C9 as claimed: the empty query and every query made only of stop words
\* (of rule 1 or of the last rule, spelled as the code lists them) comes
\* back as '*' + the query as given + '*'.
C9_StopWordsFallBack ==
    (fn = "normalizeQuery" /\ MadeOnlyOf(arg.query, ClaimStopWords)) =>
        ret = <<"*">> \o arg.query \o <<"*">>

\* C9 as amended: the empty query and every query that is not already
\* structured and is made only of stop words of the last rule, in any
\* letter case, comes back as '*' + the query as given + '*'.
C9_GenericStopWordsFallBack ==
    ( /\ fn = "normalizeQuery"
      /\ ~ClaimStructured(arg.query)
      /\ MadeOnlyOf(toLowerCase(arg.query), ClaimGenericStopWords) ) =>
        ret = <<"*">> \o arg.query \o <<"*">>

\* C9 witness: a capitalised stop-word query came back wrapped, in its own
\* letter case.
C9_Witness ==
    /\ fn = "normalizeQuery"
    /\ arg.query = <<"T","h","e"," ","l","o","g","s">>
    /\ ret = <<"*","T","h","e"," ","l","o","g","s","*">>

\* C10: for an empty sequence of logs formatLogsAsTable and
\* formatLogsAsEnhancedTable return exactly 'No logs found.'; for a
\* non-empty sequence they never return it (nor the empty string).
C10_SentinelIffEmpty ==
    fn \in {"formatLogsAsTable", "formatLogsAsEnhancedTable"} =>
        /\ (Len(arg.logs) = 0 => ret = <<"N","o"," ","l","o","g","s"," ","f","o","u","n","d",".">>)
        /\ (Len(arg.logs) > 0 =>
                /\ ret # <<"N","o"," ","l","o","g","s"," ","f","o","u","n","d",".">>
                /\ ret # << >>
                /\ \E i \in 1..Len(ret) : ret[i] = "\n")

\* C10 witness: the enhanced formatter was given no logs and returned the
\* sentinel.
C10_Witness ==
    /\ fn = "formatLogsAsEnhancedTable"
    /\ arg.logs = << >>
    /\ ret = <<"N","o"," ","l","o","g","s"," ","f","o","u","n","d",".">>

\* the positions of the newlines of a text, and its lines
NewlinePositions(s) == { i \in 1..Len(s) : s[i] = "\n" }

NthNewline(s, k) ==
    CHOOSE p \in NewlinePositions(s) :
        Cardinality({ q \in NewlinePositions(s) : q < p }) = k - 1

LineCount(s) == Cardinality(NewlinePositions(s)) + 1

Line(s, k) ==
    SubSeq(s,
           IF k = 1 THEN 1 ELSE NthNewline(s, k - 1) + 1,
           IF k = LineCount(s) THEN Len(s) ELSE NthNewline(s, k) - 1)

\* the headers and the cell texts of the two formatLogsAsTable
TableHeaders(f) ==
    IF f = "formatLogsAsTable"
    THEN <<F.Timestamp, F.Status, F.Service, F.Host, F.Message>>
    ELSE <<F.Timestamp, F.Status, F.Service, F.Host,
           F2.TraceID, F2.UserID, F2.HTTPStatus, F.Message>>

TableCells(f, log) ==
    IF f = "formatLogsAsTable" THEN tableRow(log) ELSE tableRow2(log)

\* the width the claim gives column c: the maximum of its header's length
\* and of all its cells' lengths
ClaimedWidth(f, logs, c) ==
    CHOOSE w \in { Len(TableHeaders(f)[c]) }
                 \cup { Len(TableCells(f, logs[i])[c]) : i \in 1..Len(logs) } :
        /\ w >= Len(TableHeaders(f)[c])
        /\ \A i \in 1..Len(logs) : w >= Len(TableCells(f, logs[i])[c])

\* where column c starts in a line whose columns have the claimed widths and
\* stand three characters apart
ClaimedOffset(f, logs, c) ==
    Sum([ k \in 1..(c - 1) |-> ClaimedWidth(f, logs, k) + 3 ])

\* the line renders the cells, each padded with spaces to the claimed width
\* of its column, with ' | ' between two columns and nothing else
RendersPadded(line, f, logs, cells) ==
    /\ Len(line) = ClaimedOffset(f, logs, Len(cells) + 1) - 3
    /\ \A c \in 1..Len(cells) :
        LET at == ClaimedOffset(f, logs, c)
            w  == ClaimedWidth(f, logs, c)
        IN  /\ SubSeq(line, at + 1, at + Len(cells[c])) = cells[c]
            /\ \A j \in (at + Len(cells[c]) + 1)..(at + w) : line[j] = " "
            /\ c < Len(cells) => SubSeq(line, at + w + 1, at + w + 3) = F.bar

\* the number of ' | ' separators of a line
BarCount(line) ==
    Cardinality({ j \in 1..(Len(line) - 2) : SubSeq(line, j, j + 2) = F.bar })

\* C11: for every non-empty sequence of logs, the output of formatLogsAsTable
\* (of either formatters.ts) has a header line and one data line per log; each
\* column has one width, the maximum of its header's length and of all its
\* cells' lengths; every header and every cell is padded to exactly that
\* width; so the header line and the data lines have one length and one
\* number of ' | ' separators.
C11_ColumnsPadded ==
    (fn \in {"formatLogsAsTable", "formatLogsAsTable2"} /\ Len(arg.logs) > 0) =>
        /\ LineCount(ret) = Len(arg.logs) + 2
        /\ RendersPadded(Line(ret, 1), fn, arg.logs, TableHeaders(fn))
        /\ \A i \in 1..Len(arg.logs) :
            /\ RendersPadded(Line(ret, i + 2), fn, arg.logs,
                             TableCells(fn, arg.logs[i]))
            /\ Len(Line(ret, i + 2)) = Len(Line(ret, 1))
            /\ BarCount(Line(ret, i + 2)) = BarCount(Line(ret, 1))
            /\ BarCount(Line(ret, 1)) = Len(TableHeaders(fn)) - 1

\* the fixed fields of the claim, each with the attribute keys it is read from
CsvFields ==
    [ timestamp |-> {"timestamp"}, message |-> {"message"}, status |-> {"status"},
      service |-> {"service"}, host |-> {"host"},
      trace_id |-> {"trace_id", "@trace_id"},
      user_id |-> {"user.id", "@user.id"},
      http_status_code |-> {"http.status_code", "@http.status_code"},
      tags |-> {"tags"} ]

\* C12: for every log, formatLogForCsv (of either formatters.ts) returns a
\* record that has every one of the fixed fields timestamp, message, status,
\* service, host, trace_id, user_id, http_status_code, tags as a key, none of
\* them undefined or null, and a field whose source attribute is absent is
\* the empty string.
C12_EveryFieldPresent ==
    fn \in {"formatLogForCsv", "formatLogForCsv1"} =>
        \A i \in 1..Len(arg.logs) :
            \A field \in DOMAIN CsvFields :
                /\ field \in DOMAIN ret[i]
                /\ ret[i][field] # Undefined
                /\ ret[i][field] # Null
                /\ (CsvFields[field] \cap DOMAIN arg.logs[i].attributes = {})
                      => ret[i][field] = StringValue(<< >>)

\* the columns of a header line: the texts between its ' | ' separators,
\* without the spaces that pad them
BarPositions(line) ==
    { j \in 1..(Len(line) - 2) : SubSeq(line, j, j + 2) = F.bar }

NthBar(line, k) ==
    CHOOSE p \in BarPositions(line) :
        Cardinality({ q \in BarPositions(line) : q < p }) = k - 1

RECURSIVE TrimEnd(_)
TrimEnd(s) ==
    IF Len(s) > 0 /\ s[Len(s)] = " " THEN TrimEnd(SubSeq(s, 1, Len(s) - 1)) ELSE s

Columns(line) ==
    [ k \in 1..(Cardinality(BarPositions(line)) + 1) |->
        TrimEnd(SubSeq(line,
                       IF k = 1 THEN 1 ELSE NthBar(line, k - 1) + 3,
                       IF k = Cardinality(BarPositions(line)) + 1 THEN Len(line)
                       ELSE NthBar(line, k) - 1)) ]

\* the six priority attributes of the claim, each with the header of its
\* column
PriorityHeaders ==
    ("trace_id" :> <<"T","r","a","c","e"," ","I","d">>)
    @@ ("user.id" :> <<"U","s","e","r"," ","I","d">>)
    @@ ("http.status_code" :> <<"H","t","t","p"," ","S","t","a","t","u","s"," ","C","o","d","e">>)
    @@ ("error.kind" :> <<"E","r","r","o","r"," ","K","i","n","d">>)
    @@ ("span_id" :> <<"S","p","a","n"," ","I","d">>)
    @@ ("request_id" :> <<"R","e","q","u","e","s","t"," ","I","d">>)

\* some log of the batch has the attribute, under its plain or its '@' key
BatchHas(logs, a) ==
    \E i \in 1..Len(logs) :
        a \in DOMAIN logs[i].attributes \/ ("@" \o a) \in DOMAIN logs[i].attributes

\* C13: in the output of formatLogsAsEnhancedTable for a non-empty batch, the
\* header row has exactly one column for each priority attribute that some
\* log of the batch has (under its plain or its '@'-prefixed key), no column
\* for a priority attribute that no log has, and no header starts with '@'.
C13_OneColumnPerPresentAttribute ==
    (fn = "formatLogsAsEnhancedTable" /\ Len(arg.logs) > 0) =>
        LET columns == Columns(Line(ret, 1))
        IN  /\ \A a \in DOMAIN PriorityHeaders :
                Cardinality({ k \in 1..Len(columns) : columns[k] = PriorityHeaders[a] })
                    = IF BatchHas(arg.logs, a) THEN 1 ELSE 0
            /\ \A k \in 1..Len(columns) : columns[k] # << >> /\ columns[k][1] # "@"
            /\ Len(columns) =
                    5 + Cardinality({ a \in DOMAIN PriorityHeaders : BatchHas(arg.logs, a) })

\* C13 witness: a log of the batch has trace_id under both keys, and the
\* header row has the one column Trace Id.
C13_Witness ==
    /\ fn = "formatLogsAsEnhancedTable"
    /\ \E i \in 1..Len(arg.logs) :
            {"trace_id", "@trace_id"} \subseteq DOMAIN arg.logs[i].attributes
    /\ Cardinality({ k \in 1..Len(Columns(Line(ret, 1))) :
                        Columns(Line(ret, 1))[k] = PriorityHeaders["trace_id"] }) = 1

\* the four tools that reach the backend through the handler's try block
BackendTools == {"search_logs", "tail_logs", "export_logs", "get_logs_by_trace_id"}

\* the invocation in slot i has sent its request to the backend
Sent(i, tool) ==
    /\ calls[i].pc # "idle"
    /\ calls[i].tool = tool
    /\ Len(calls[i].requests) >= 1

\* the end of the range as the claims give it: the caller's `to` when
\* supplied, otherwise now
ClaimedEnd(args, now) ==
    IF "to" \in DOMAIN args THEN Text(args.to) ELSE toISOString(now)

\* C14: for search_logs, if `from` is a relative token the request's start is
\* now minus the token's duration, and if it is not the start is the `from`
\* string verbatim; in both cases the request's end is the caller's `to` when
\* supplied, otherwise now.
C14_SearchRange ==
    \A i \in CallIds : Sent(i, "search_logs") =>
        LET args == calls[i].args
            now  == calls[i].startedAt
            sent == calls[i].requests[1].filter
        IN  /\ sent.from = IF args.from \in RelativeTokens
                           THEN toISOString(now - DocumentedHours(args.from) * 3600)
                           ELSE Text(args.from)
            /\ sent.to = ClaimedEnd(args, now)

\* the limit the caller asked for, 1000 when the caller gave none
RequestedLimit(args) == IF "limit" \in DOMAIN args THEN args.limit ELSE 1000

\* C15: for every invocation of search_logs, tail_logs, export_logs and
\* get_logs_by_trace_id that reaches the backend, the page limit of the
\* request is min(requested limit, 1000), 1000 when the caller gives no
\* limit, and never more than 1000.
C15_LimitClamped ==
    \A i \in CallIds : \A tool \in BackendTools : Sent(i, tool) =>
        \A r \in 1..Len(calls[i].requests) :
            /\ calls[i].requests[r].page.limit =
                   IF RequestedLimit(calls[i].args) <= 1000
                   THEN RequestedLimit(calls[i].args) ELSE 1000
            /\ calls[i].requests[r].page.limit <= 1000

\* C15 witness: each of the four tools was asked for more than 1000 logs
\* somewhere, here get_logs_by_trace_id for 5000, and sent 1000.
C15_Witness ==
    \E i \in CallIds :
        /\ Sent(i, "get_logs_by_trace_id")
        /\ "limit" \in DOMAIN calls[i].args
        /\ calls[i].args.limit = 5000
        /\ calls[i].requests[1].page.limit = 1000

\* the effective sort order: the caller's when given, otherwise descending,
\* but ascending for get_logs_by_trace_id; export_logs and tail_logs take no
\* sort argument
EffectiveOrder(tool, args) ==
    IF tool \in {"search_logs", "get_logs_by_trace_id"} /\ "sort" \in DOMAIN args
    THEN args.sort
    ELSE IF tool = "get_logs_by_trace_id" THEN "asc" ELSE "desc"

\* C16: the sort key sent to the backend is 'timestamp' exactly when the
\* effective sort order is ascending and '-timestamp' when it is descending.
C16_SortKey ==
    \A i \in CallIds : \A tool \in BackendTools : Sent(i, tool) =>
        \A r \in 1..Len(calls[i].requests) :
            calls[i].requests[r].sort =
                IF EffectiveOrder(tool, calls[i].args) = "asc"
                THEN "timestamp" ELSE "-timestamp"

\* C16 witness: get_logs_by_trace_id without a sort argument sent the
\* ascending key while a search_logs without one had sent the descending key.
C16_Witness ==
    \E i, j \in CallIds :
        /\ Sent(i, "get_logs_by_trace_id")
        /\ "sort" \notin DOMAIN calls[i].args
        /\ calls[i].requests[1].sort = "timestamp"
        /\ Sent(j, "search_logs")
        /\ "sort" \notin DOMAIN calls[j].args
        /\ calls[j].requests[1].sort = "-timestamp"

\* the cause a failed request is reported with: the status's message, or the
\* network error's
ClaimedCause(status) ==
    CASE status = 401 -> "Invalid API credentials. Please check your DD_API_KEY and DD_APP_KEY."
      [] status = 403 -> "Access denied. Please verify your Datadog permissions and API key scopes."
      [] status = 429 -> "Rate limit exceeded. Please wait a moment before trying again."
      [] status = 500 -> "Datadog service temporarily unavailable. Please try again later."
      [] status = 400 -> "Request failed with status (status). (errorText)"
      [] status = 0 -> "fetch failed"

\* the backend request of the invocation in slot i has failed and its
\* handler is through
FailedAtBackend(i) ==
    /\ calls[i].pc = "done"
    /\ calls[i].tool \in BackendTools
    /\ "answer" \in DOMAIN calls[i]
    /\ ~calls[i].answer.ok

\* C17: whenever the backend request of search_logs, tail_logs, export_logs
\* or get_logs_by_trace_id fails (a status that is not OK, or a network
\* error), the invocation completes with a normal result whose text is an
\* error message carrying the cause, and no exception leaves the handler.
C17_FailureBecomesResult ==
    \A i \in CallIds : FailedAtBackend(i) =>
        /\ "thrown" \notin DOMAIN calls[i]
        /\ "result" \in DOMAIN calls[i]
        /\ calls[i].result.kind = "text"
        /\ calls[i].result.isErrorText
        /\ calls[i].result.errorMessage = ClaimedCause(calls[i].answer.status)

\* C17 witness: an export_logs got no answer at all (the network failed) and
\* returned the error text.
C17_Witness ==
    \E i \in CallIds :
        /\ FailedAtBackend(i)
        /\ calls[i].tool = "export_logs"
        /\ calls[i].answer.status = 0
        /\ calls[i].result.isErrorText

TraceQuery(traceId) == <<"@","t","r","a","c","e","_","i","d",":">> \o traceId

\* C19 as claimed: for get_logs_by_trace_id the query sent is '@trace_id:'
\* followed by the trace id as given, and when no `from` is given the
\* request's start is now minus 24 hours and its end is the caller's `to`
\* when supplied, otherwise now.
C19_TraceQueryAndDay ==
    \A i \in CallIds : Sent(i, "get_logs_by_trace_id") =>
        LET args == calls[i].args
            now  == calls[i].startedAt
            sent == calls[i].requests[1].filter
        IN  /\ sent.query = TraceQuery(args.traceId)
            /\ "from" \notin DOMAIN args =>
                   /\ sent.from = toISOString(now - 24 * 3600)
                   /\ sent.to = ClaimedEnd(args, now)

\* C19 as amended: the same, with the end being the caller's `to` when it is
\* supplied and not the empty string, otherwise now; an empty `from` counts
\* as no `from`.
C19_TraceQueryAndDayNonEmptyTo ==
    \A i \in CallIds : Sent(i, "get_logs_by_trace_id") =>
        LET args == calls[i].args
            now  == calls[i].startedAt
            sent == calls[i].requests[1].filter
        IN  /\ sent.query = TraceQuery(args.traceId)
            /\ ("from" \notin DOMAIN args \/ args.from = "") =>
                   /\ sent.from = toISOString(now - 24 * 3600)
                   /\ sent.to = IF "to" \in DOMAIN args /\ args.to # ""
                                THEN Text(args.to) ELSE toISOString(now)

\* C19 witness: a trace id that normalizeQuery would rewrite went out
\* verbatim, and a lookup without `from` went out for the last 24 hours.
C19_Witness ==
    \E i, j \in CallIds :
        /\ Sent(i, "get_logs_by_trace_id")
        /\ normalizeQuery(calls[i].args.traceId) # calls[i].args.traceId
        /\ calls[i].requests[1].filter.query = TraceQuery(calls[i].args.traceId)
        /\ Sent(j, "get_logs_by_trace_id")
        /\ "from" \notin DOMAIN calls[j].args
        /\ calls[j].startedAt > ClockStart
        /\ calls[j].requests[1].filter.from = toISOString(calls[j].startedAt - 86400)

\* C20: across the invocations of one process, interleaved at their awaits
\* or not, the DatadogClient is constructed at most once, there is a client
\* exactly when it has been constructed, and every invocation that got a
\* client holds that one instance.
C20_OneClient ==
    /\ constructed <= 1
    /\ (datadogClient = Null) <=> (constructed = 0)
    /\ \A i \in CallIds : "client" \in DOMAIN calls[i] =>
           /\ datadogClient # Null
           /\ calls[i].client = datadogClient
           /\ calls[i].client.id = 1

\* C20 witness: two invocations that arrived at different times are in
\* flight together, both holding the one client.
C20_Witness ==
    \E i, j \in CallIds :
        /\ i # j
        /\ calls[i].pc = "awaiting"
        /\ calls[j].pc # "idle"
        /\ "client" \in DOMAIN calls[j]
        /\ calls[i].startedAt < calls[j].startedAt
        /\ calls[i].client = calls[j].client
        /\ constructed = 1

\* a credential is unset or empty
CredentialMissing == env.DD_API_KEY = "" \/ env.DD_APP_KEY = ""

\* C21: when DD_API_KEY or DD_APP_KEY is unset or empty as search_logs,
\* tail_logs, export_logs or get_logs_by_trace_id is invoked, the invocation
\* fails with the configuration error, no request has gone to the backend and
\* the shared client stays unset; the configuration error arises in no other
\* way; and an invocation made with both credentials set holds the client,
\* constructed from them, and has sent its request.
C21_MissingCredentials ==
    \A i \in CallIds : (calls[i].pc # "idle" /\ calls[i].tool \in BackendTools) =>
        /\ CredentialMissing =>
               /\ calls[i].pc = "done"
               /\ "thrown" \in DOMAIN calls[i]
               /\ calls[i].thrown = MissingCredentials
               /\ calls[i].requests = << >>
               /\ "client" \notin DOMAIN calls[i]
               /\ datadogClient = Null
               /\ constructed = 0
        /\ "thrown" \in DOMAIN calls[i] => CredentialMissing
        /\ ~CredentialMissing =>
               /\ "client" \in DOMAIN calls[i]
               /\ calls[i].client = datadogClient
               /\ calls[i].client.apiKey = env.DD_API_KEY
               /\ calls[i].client.appKey = env.DD_APP_KEY
               /\ constructed = 1
               /\ Len(calls[i].requests) = 1

\* C21 witness: tail_logs was invoked with DD_APP_KEY empty and has failed
\* with the configuration error, nothing sent and no client made.
C21_Witness ==
    \E i \in CallIds :
        /\ calls[i].pc = "done"
        /\ calls[i].tool = "tail_logs"
        /\ env.DD_API_KEY # "" /\ env.DD_APP_KEY = ""
        /\ "thrown" \in DOMAIN calls[i]
        /\ calls[i].requests = << >>
        /\ datadogClient = Null

\* the filter of the request the tail_logs invocation in slot i has sent
TailFilter(i) == calls[i].requests[1].filter

\* C22: for tail_logs, the request sent has its start equal to the caller's
\* `from` when supplied and otherwise to the clock value at call time minus 60
\* seconds, and its end equal to the clock value at call time; with no `from`
\* the window sent is exactly 60 seconds long.
C22_TailWindow ==
    \A i \in CallIds : Sent(i, "tail_logs") =>
        /\ TailFilter(i).from =
               IF "from" \in DOMAIN calls[i].args THEN Text(calls[i].args.from)
               ELSE toISOString(calls[i].startedAt - 60)
        /\ TailFilter(i).to = toISOString(calls[i].startedAt)
        /\ "from" \notin DOMAIN calls[i].args =>
               TailFilter(i).to.iso - TailFilter(i).from.iso = 60

\* C22 as the code has it: the start is the caller's `from` when supplied and
\* not the empty string, otherwise the clock value at call time minus 60
\* seconds; the end is a second reading of the clock, taken at or after the
\* first and not after the present; so without a usable `from` the window is
\* at least 60 seconds long, and exactly 60 when the clock did not move
\* between the two readings.
C22_TailWindowTwoReadings ==
    \A i \in CallIds : Sent(i, "tail_logs") =>
        LET given == "from" \in DOMAIN calls[i].args /\ calls[i].args.from # ""
        IN  /\ TailFilter(i).from =
                   IF given THEN Text(calls[i].args.from)
                   ELSE toISOString(calls[i].startedAt - 60)
            /\ \E later \in ClockValues :
                   /\ calls[i].startedAt <= later
                   /\ later <= clock
                   /\ TailFilter(i).to = toISOString(later)
                   /\ ~given =>
                          /\ later - TailFilter(i).from.iso >= 60
                          /\ (later = calls[i].startedAt) =>
                                 later - TailFilter(i).from.iso = 60

\* C22 witness: a tail_logs with `from` the empty string has sent its request,
\* and the clock moved between the two readings of tailLogs.
C22_Witness ==
    \E i \in CallIds :
        /\ Sent(i, "tail_logs")
        /\ "from" \in DOMAIN calls[i].args
        /\ calls[i].args.from = ""
        /\ TailFilter(i).from = toISOString(calls[i].startedAt - 60)
        /\ TailFilter(i).to = toISOString(calls[i].startedAt + 1)

\* the tokens the last rule keeps of a query: its words, lower-cased, in
\* their order, longer than two characters and no generic stop word
RemainingTokens(q) ==
    SelectSeq(splitWhitespace(toLowerCase(q)),
              LAMBDA w : Len(w) > 2 /\ w \notin ClaimGenericStopWords)

\* '*t1* AND *t2* AND ...'
RECURSIVE ContentClauseList(_)
ContentClauseList(tokens) ==
    IF Len(tokens) = 0 THEN << >>
    ELSE <<"*">> \o Head(tokens) \o <<"*">>
         \o (IF Len(tokens) = 1 THEN << >>
             ELSE <<" ","A","N","D"," ">> \o ContentClauseList(Tail(tokens)))

\* none of rules 1 to 6 applies to the query: rule 1 has no service word, or
\* has one and no term left, and no keyword of rules 2 to 6 occurs
NoEarlierRule(q) ==
    /\ ~ClaimHasServiceWord(q) \/ RemainingTerms(q) = << >>
    /\ \A i \in DOMAIN ClaimedRules : ~RuleMatches(i, q)

\* C23: for every not-already-structured query to which none of rules 1 to 6
\* applies, with t1..tn the tokens that remain after splitting on white space
\* and dropping the tokens of length <= 2 and the generic stop words,
\* normalizeQuery returns 'service:*t1* OR *t1*' when n = 1 and
\* '(service:*t1* OR ... OR service:*tn*) OR (*t1* AND ... AND *tn*)', the
\* tokens in input order, when n >= 2.
C23_WordRule ==
    ( /\ fn = "normalizeQuery"
      /\ ~ClaimStructured(arg.query)
      /\ NoEarlierRule(arg.query) ) =>
        LET tokens == RemainingTokens(arg.query)
        IN  /\ Len(tokens) = 1 =>
                   ret = <<"s","e","r","v","i","c","e",":","*">> \o tokens[1]
                         \o <<"*"," ","O","R"," ","*">> \o tokens[1] \o <<"*">>
            /\ Len(tokens) >= 2 =>
                   ret = <<"(">> \o ServiceClauseList(tokens)
                         \o <<")"," ","O","R"," ","(">>
                         \o ContentClauseList(tokens) \o <<")">>

\* C23 witness: two tokens, the second before the first in the alphabet,
\* came back in input order in both groups.
C23_Witness ==
    /\ fn = "normalizeQuery"
    /\ arg.query = <<"w","e","b"," ","m","e","m","b","e","r">>
    /\ ret = <<"(","s","e","r","v","i","c","e",":","*","w","e","b","*"," ","O","R"," ",
               "s","e","r","v","i","c","e",":","*","m","e","m","b","e","r","*",")",
               " ","O","R"," ",
               "(","*","w","e","b","*"," ","A","N","D"," ","*","m","e","m","b","e","r","*",")">>

\* the formatter called returned a table, not the sentinel and no exception
ReturnedTable ==
    /\ fn \in {"formatLogsAsTable", "formatLogsAsTable2", "formatLogsAsEnhancedTable"}
    /\ Len(arg.logs) > 0
    /\ ret # Throws("TypeError")

\* C24: for every non-empty sequence of logs, the separator line that
\* formatTable puts under the header has exactly the length of the header
\* line, the total width of the table.
C24_SeparatorAsWideAsHeader ==
    ReturnedTable =>
        /\ LineCount(ret) >= 2
        /\ Len(Line(ret, 2)) = Len(Line(ret, 1))

\* the facet attributes formatLogForCsv looks up with getAttributeValue, by
\* the field of the flat record each lands in
FacetOf == [ trace_id |-> "trace_id", user_id |-> "user.id",
             http_status_code |-> "http.status_code" ]

\* the value of an attribute of a log as a field of the flat record holds it
FieldValue(log, key) ==
    IF isNumber(log, key) THEN NumberValue(log.attributes[key])
    ELSE StringValue(log.attributes[key])

\* the log carries the key with a value that is not the empty string (nor 0)
CarriesValue(log, key) ==
    /\ key \in DOMAIN log.attributes
    /\ log.attributes[key] # << >>
    /\ ~(isNumber(log, key) /\ log.attributes[key] = <<"0">>)

\* C25: for every facet attribute looked up by getAttributeValue (trace_id,
\* user.id, http.status_code), when a log carries both the bare key and the
\* '@'-prefixed key with different values the lookup returns the value of the
\* bare key; it returns the '@'-prefixed value only when the bare key is
\* absent.
C25_BareKeyPreferred ==
    fn = "formatLogForCsv" =>
        \A i \in 1..Len(arg.logs) : \A field \in DOMAIN FacetOf :
            LET log  == arg.logs[i]
                bare == FacetOf[field]
                at   == "@" \o FacetOf[field]
            IN  /\ (CarriesValue(log, bare) /\ CarriesValue(log, at)
                      /\ log.attributes[bare] # log.attributes[at]) =>
                       ret[i][field] = FieldValue(log, bare)
                /\ (CarriesValue(log, at) /\ ret[i][field] = FieldValue(log, at)) =>
                       bare \notin DOMAIN log.attributes

\* C25 as the code has it: the lookup returns the value of the '@'-prefixed
\* key when the log carries it with a value that is not empty, whether or not
\* the bare key is there too; otherwise the value of the bare key; the flat
\* record holds the empty string when neither gives a value.
C25_AtKeyPreferred ==
    fn = "formatLogForCsv" =>
        \A i \in 1..Len(arg.logs) : \A field \in DOMAIN FacetOf :
            LET log  == arg.logs[i]
                bare == FacetOf[field]
                at   == "@" \o FacetOf[field]
            IN  ret[i][field] =
                    IF CarriesValue(log, at) THEN FieldValue(log, at)
                    ELSE IF CarriesValue(log, bare) THEN FieldValue(log, bare)
                    ELSE StringValue(<< >>)

\* C25 witness: a log with trace_id 'abc' and @trace_id 'xyz12' was looked
\* up, and so was a log with an empty @user.id beside its user.id.
C25_Witness ==
    /\ fn = "formatLogForCsv"
    /\ Len(arg.logs) = 2
    /\ "trace_id" \in DOMAIN arg.logs[1].attributes
    /\ "@trace_id" \in DOMAIN arg.logs[1].attributes
    /\ ret[1].trace_id = StringValue(<<"x","y","z","1","2">>)
    /\ "@user.id" \in DOMAIN arg.logs[2].attributes
    /\ arg.logs[2].attributes["@user.id"] = << >>
    /\ ret[2].user_id = StringValue(<<"u","9">>)

\* C27: for every non-empty sequence of logs, every data row of the output of
\* formatLogsAsEnhancedTable has exactly as many cells as the header row has
\* columns, also when the batch holds both the plain and the '@'-prefixed
\* variant of one priority attribute.
C27_RowsAsWideAsHeader ==
    (fn = "formatLogsAsEnhancedTable" /\ Len(arg.logs) > 0) =>
        /\ LineCount(ret) = Len(arg.logs) + 2
        /\ \A k \in 3..LineCount(ret) :
               BarCount(Line(ret, k)) = BarCount(Line(ret, 1))

\* the backend has answered the invocation in slot i with its logs and the
\* handler is through
AnsweredWithLogs(i, tool) ==
    /\ calls[i].pc = "done"
    /\ calls[i].tool = tool
    /\ "answer" \in DOMAIN calls[i]
    /\ calls[i].answer.ok

\* the result of the invocation in slot i is the text that carries `body`
Renders(i, body) ==
    /\ "result" \in DOMAIN calls[i]
    /\ ~calls[i].result.isErrorText
    /\ calls[i].result.body = body

\* the fixed-column tables of a batch: that of either formatters.ts
FixedColumnTables(data) ==
    { formatLogsAsTable(data), formatLogsAsTable2(data) } \ { Throws("TypeError") }

\* C26: on a successful backend response the logs are rendered as the output
\* mode selects: outputFormat 'json' gives the logs as they came, outputFormat
\* 'table' gives the fixed-column table for search_logs and tail_logs (which
\* has no other mode), and get_logs_by_trace_id with outputFormat 'table'
\* gives the enhanced table with the dynamically discovered columns.
C26_RendererByOutputMode ==
    \A i \in CallIds :
        /\ (AnsweredWithLogs(i, "search_logs") \/ AnsweredWithLogs(i, "get_logs_by_trace_id")) =>
               (calls[i].validatedArgs.outputFormat = "json" =>
                    Renders(i, [json |-> calls[i].answer.data]))
        /\ (\/ AnsweredWithLogs(i, "search_logs")
                 /\ calls[i].validatedArgs.outputFormat = "table"
            \/ AnsweredWithLogs(i, "tail_logs")) =>
               \E table \in FixedColumnTables(calls[i].answer.data) :
                   Renders(i, [table |-> table])
        /\ (AnsweredWithLogs(i, "get_logs_by_trace_id")
              /\ calls[i].validatedArgs.outputFormat = "table") =>
               Renders(i, [table |-> formatLogsAsEnhancedTable(calls[i].answer.data)])

\* C28: for every tail_logs invocation that returned its logs, the clock
\* free to advance while the request was outstanding, the 'Time range' line
\* of the response gives the start and the end of the filter of the request
\* that was sent.
C28_TimeRangeAsSent ==
    \A i \in CallIds :
        (AnsweredWithLogs(i, "tail_logs") /\ ~calls[i].result.isErrorText) =>
            calls[i].result.timeInfo = << TailFilter(i).from, TailFilter(i).to >>

\* C29: for export_logs with format 'csv', every field of the flat record of
\* formatLogForCsv (timestamp, message, status, service, host, trace_id,
\* user_id, http_status_code, tags) has a column in the header given to the
\* CSV writer, so that no field of a record written is dropped.
C29_EveryFieldHasAColumn ==
    \A i \in CallIds :
        (AnsweredWithLogs(i, "export_logs") /\ calls[i].validatedArgs.format = "csv") =>
            LET file == calls[i].result.file
            IN  /\ DOMAIN CsvFields \subseteq Range(file.header)
                /\ \A r \in 1..Len(file.records) :
                       DOMAIN file.records[r] \subseteq Range(file.header)

============================================================================
